---- MODULE Spec2Model ----
(***************************************************************************)
(* Model of the stream-resolution core of cli_api-downldr:                 *)
(*   - the player-response locator (YouTubeFetcher::extractJsonFromHtml    *)
(*     and the inline scan of fetch_video_info),                           *)
(*   - the signature-cipher parser (SignatureDecipherer::                  *)
(*     parse_signature_cipher with url_decode),                            *)
(*   - the two catalog builders (fetch_video_info's process_format_list    *)
(*     and YouTubeFetcher::parseStreamFormats) and the download entry      *)
(*     points (download_video_format, YouTubeFetcher::downloadStream),     *)
(*   - one resolution request up to what main does with its result,        *)
(*   - a SignatureDecipherer instance under sequences of calls, and the    *)
(*     process-wide decipherer over sequences of requests,                 *)
(*   - the stream selectors (getAllStreams, filterStreams,                 *)
(*     selectBestStream) as main calls them,                               *)
(*   - threads racing through ensure_decipherer_initialized,               *)
(*   - one downloadStream transfer with its chunk and progress callbacks,  *)
(*   - the two format-filter parsers (parseFormatFilterString,             *)
(*     parse_wasm_filter_string).                                          *)
(* Strings are sequences of one-character strings; C++ indices are         *)
(* 0-based and std::string::npos is NPOS.                                  *)
(***************************************************************************)
EXTENDS Integers, Sequences, FiniteSets, TLC

VARIABLES
    html,        \* locator: the page text handed to the locator
    loc_fn,      \* locator: which locator runs ("core" | "cli")
    loc_out,     \* locator: NotRun, or the locator's result record
    cipher_str,  \* cipher parser: the cipher string to parse
    cip_out,     \* cipher parser: NotRun, or parse_signature_cipher's outputs
    prog,              \* catalog: the program that runs ("cli" native CLI | "core" library)
    formats_json,      \* catalog: streamingData.formats of the player response
    adaptive_json,     \* catalog: streamingData.adaptiveFormats of the player response
    script,            \* catalog: the player script the page refers to
    global_decipherer, \* catalog: the process-wide decipherer (Null until initialised)
    cat_pc,            \* catalog: "start" | "fetched" | "threw"
    info_formats,      \* catalog: VideoInfo::formats built by fetch_video_info
    details,           \* catalog: VideoDetails built by parseStreamFormats
    dl_last,           \* download: NotRun, or the last download call and its result
    fs_opened,         \* download: urls for which an output file was opened (truncated)
    net_get,           \* download: urls for which a transfer was issued
    res_in,      \* resolution: the request and what the network answers to it
    res_out,     \* resolution: NotRun, or what fetchVideoDetails / fetch_video_info returned
    res_main,    \* resolution: what main did with it ("idle" | "exit_error" | "listed")
    inst,        \* decipherer: one SignatureDecipherer instance (Null before construction)
    inst_ret,    \* decipherer: the last call on the instance, what it returned,
                 \*   whether the call before it was a failed decipher_signature, and
                 \*   the script given to initialize_operations
    inst_failed, \* decipherer: an extraction step has failed on this instance
    inst_calls,  \* decipherer: number of calls made on instances so far
    req_n,       \* cache: number of resolution requests served by the process
    populated,   \* cache: number of times global_decipherer was set to an instance
    sel_in,      \* selection: the streams and the criteria handed to the selectors
    sel_out,     \* selection: NotRun, or the last selector call and its result
    th_pc,       \* threads: where each thread is in ensure_decipherer_initialized
    th_script,   \* threads: the player script content each thread calls it with
    th_saw,      \* threads: what each thread found behind global_decipherer after it
    mx,          \* threads: the holder of decipherer_mutex (0 when free)
    g_id,        \* threads: which constructed instance global_decipherer owns (0: none)
    made,        \* threads: instances constructed, initialize_operations runs, instances destroyed
    dn_in,       \* transfer: the stream, the chunks the server sends and how the transfer ends
    dn_pc,       \* transfer: where downloadStream is ("idle" | "transfer" | "finished" |
                 \*   "returned"), the next chunk to arrive and the cpr::Response
    dn_bytes,    \* transfer: downloadedBytes
    dn_file,     \* transfer: the output file (exists, size)
    dn_calls,    \* transfer: the progressCallback invocations so far
    dn_ret,      \* transfer: NotRun, or what downloadStream returned
    fp_in,       \* filter string: the items of the --format-filter string
    fp_out       \* filter string: NotRun, or the criteria of both parsers

locVars == <<html, loc_fn, loc_out>>
cipVars == <<cipher_str, cip_out>>
catVars == <<prog, formats_json, adaptive_json, script, global_decipherer, cat_pc,
             info_formats, details, dl_last, fs_opened, net_get>>
resVars == <<res_in, res_out, res_main>>
decVars == <<inst, inst_ret, inst_failed, inst_calls>>
cacheVars == <<req_n, populated>>
selVars == <<sel_in, sel_out>>
thrVars == <<th_pc, th_script, th_saw, mx, g_id, made>>
dnVars == <<dn_in, dn_pc, dn_bytes, dn_file, dn_calls, dn_ret>>
fpVars == <<fp_in, fp_out>>
lateVars == <<thrVars, dnVars, fpVars>>
extVars == <<resVars, decVars, cacheVars, selVars, lateVars>>
vars == <<html, loc_fn, loc_out, cipher_str, cip_out, prog, formats_json,
          adaptive_json, script, global_decipherer, cat_pc, info_formats, details,
          dl_last, fs_opened, net_get, res_in, res_out, res_main, inst, inst_ret,
          inst_failed, inst_calls, req_n, populated, sel_in, sel_out, th_pc,
          th_script, th_saw, mx, g_id, made, dn_in, dn_pc, dn_bytes, dn_file,
          dn_calls, dn_ret, fp_in, fp_out>>

----------------------------------------------------------------------------
(* std::string helpers *)

NPOS == -1

NUL == "NUL"

\* s[i] of a std::string; s[s.size()] is the terminating NUL
CharAt(s, i) == IF i >= 0 /\ i < Len(s) THEN s[i + 1] ELSE NUL

\* s.substr(pos, n)
Substr(s, pos, n) ==
    LET last == IF pos + n > Len(s) THEN Len(s) ELSE pos + n
    IN  SubSeq(s, pos + 1, last)

\* needle occurs in s at 0-based offset k
MatchAt(s, needle, k) ==
    /\ k >= 0
    /\ k + Len(needle) <= Len(s)
    /\ SubSeq(s, k + 1, k + Len(needle)) = needle

\* s.find(needle, from)
Find(s, needle, from) ==
    LET hits == {k \in from..(Len(s) - Len(needle)) : MatchAt(s, needle, k)}
    IN  IF hits = {} THEN NPOS
        ELSE CHOOSE k \in hits : \A j \in hits : k <= j

StrPlayerResponseOpen ==
    <<"y","t","I","n","i","t","i","a","l","P","l","a","y","e","r","R","e","s","p","o","n","s","e"," ","="," ","{">>
StrVarPlayerResponseOpen ==
    <<"v","a","r"," ","y","t","I","n","i","t","i","a","l","P","l","a","y","e","r","R","e","s","p","o","n","s","e"," ","="," ","{">>
StrInitialDataOpen ==
    <<"y","t","I","n","i","t","i","a","l","D","a","t","a"," ","="," ","{">>
StrPlayerResponseAssign ==
    <<"y","t","I","n","i","t","i","a","l","P","l","a","y","e","r","R","e","s","p","o","n","s","e"," ","="," ">>
StrVarPlayerResponseAssign ==
    <<"v","a","r"," ","y","t","I","n","i","t","i","a","l","P","l","a","y","e","r","R","e","s","p","o","n","s","e"," ","="," ">>
StrInitialDataAssign ==
    <<"y","t","I","n","i","t","i","a","l","D","a","t","a"," ","="," ">>

----------------------------------------------------------------------------
(* PlayerResponseLocator *)

NotRun == [run |-> FALSE]

\* the components a specification does not exercise stay as constructed
LocatorIdle == html = <<>> /\ loc_fn = "none" /\ loc_out = NotRun
CipherIdle == cipher_str = <<>> /\ cip_out = NotRun

\* static std::unique_ptr<SignatureDecipherer> global_decipherer (empty)
Null == [null |-> TRUE]

EmptyDetails == [formats |-> <<>>, adaptiveFormats |-> <<>>]

CatalogIdle ==
    /\ prog = "none"
    /\ formats_json = <<>>
    /\ adaptive_json = <<>>
    /\ script = "none"
    /\ global_decipherer = Null
    /\ cat_pc = "idle"
    /\ info_formats = <<>>
    /\ details = EmptyDetails
    /\ dl_last = NotRun
    /\ fs_opened = {}
    /\ net_get = {}

ResolveIdle ==
    /\ res_in = [prog |-> "none"]
    /\ res_out = NotRun
    /\ res_main = "idle"

DecipherIdle ==
    /\ inst = Null
    /\ inst_ret = NotRun
    /\ inst_failed = FALSE
    /\ inst_calls = 0

CacheIdle == req_n = 0 /\ populated = 0

SelectionIdle == sel_in = [run |-> FALSE] /\ sel_out = NotRun

ThreadsIdle ==
    /\ th_pc = <<>>
    /\ th_script = <<>>
    /\ th_saw = <<>>
    /\ mx = 0
    /\ g_id = 0
    /\ made = [constructed |-> 0, init_runs |-> 0, destroyed |-> {}]

TransferIdle ==
    /\ dn_in = NotRun
    /\ dn_pc = [at |-> "idle", next |-> 1]
    /\ dn_bytes = 0
    /\ dn_file = [exists |-> FALSE, size |-> 0]
    /\ dn_calls = <<>>
    /\ dn_ret = NotRun

FilterStringIdle == fp_in = <<>> /\ fp_out = NotRun

LateIdle == ThreadsIdle /\ TransferIdle /\ FilterStringIdle

ExtIdle == ResolveIdle /\ DecipherIdle /\ CacheIdle /\ SelectionIdle /\ LateIdle

\* the condition of the scanning for-loop: i < htmlContent.length()
ScanGuardPastEnd(i, n) == i <= n
ScanGuard(i, n) == i < n

\* The balanced-brace loop shared by both locators. end_pos is the index of
\* the closing brace (NPOS if the loop runs off the end), last_read the
\* largest index at which the input was read.
RECURSIVE ScanBraces(_, _, _, _)
ScanBraces(s, i, brace_count, last_read) ==
    IF ~ScanGuard(i, Len(s))
    THEN [end_pos |-> NPOS, last_read |-> last_read]
    ELSE LET c == CharAt(s, i) IN
         IF c = "{"
         THEN ScanBraces(s, i + 1, brace_count + 1, i)
         ELSE IF c = "}"
              THEN IF brace_count - 1 = 0
                   THEN [end_pos |-> i, last_read |-> i]
                   ELSE ScanBraces(s, i + 1, brace_count - 1, i)
              ELSE ScanBraces(s, i + 1, brace_count, i)

LocFail(last_read) ==
    [run |-> TRUE, ok |-> FALSE, json |-> <<>>, start_pos |-> NPOS, last_read |-> last_read]

LocScanFrom(s, start_pos) ==
    LET sc == ScanBraces(s, start_pos, 0, -1) IN
    IF sc.end_pos = NPOS
    THEN LocFail(sc.last_read)
    ELSE [run |-> TRUE, ok |-> TRUE,
          json |-> Substr(s, start_pos, sc.end_pos - start_pos + 1),
          start_pos |-> start_pos, last_read |-> sc.last_read]

\* YouTubeFetcher::extractJsonFromHtml
extractJsonFromHtml(htmlContent) ==
    LET p1 == Find(htmlContent, StrPlayerResponseOpen, 0)
        p2 == IF p1 = NPOS THEN Find(htmlContent, StrVarPlayerResponseOpen, 0) ELSE p1
    IN  IF p2 = NPOS THEN LocFail(-1)
        ELSE LET pos == Find(htmlContent, <<"{">>, p2) IN
             IF pos = NPOS THEN LocFail(-1)
             ELSE LocScanFrom(htmlContent, pos)

\* "start_pos += std::string(...).length() - 1": the offset added to the
\* position of the anchor in fetch_video_info
CliAnchorOffsetAtBrace(assign) == Len(assign)
CliAnchorOffset(assign) == Len(assign) - 1

\* the anchor search and scan of fetch_video_info
fetch_video_info_locate(html_content) ==
    LET v == Find(html_content, StrVarPlayerResponseOpen, 0)
        p == Find(html_content, StrPlayerResponseOpen, 0)
        d == Find(html_content, StrInitialDataOpen, 0)
        start_pos ==
            IF v # NPOS THEN v + CliAnchorOffset(StrVarPlayerResponseAssign)
            ELSE IF p # NPOS THEN p + CliAnchorOffset(StrPlayerResponseAssign)
            ELSE IF d # NPOS THEN d + CliAnchorOffset(StrInitialDataAssign)
            ELSE NPOS
    IN  IF start_pos = NPOS THEN LocFail(-1)
        ELSE LocScanFrom(html_content, start_pos)

----------------------------------------------------------------------------
(* Inputs of the locator: head ++ anchor-or-garbage ++ tail *)

MaxHead == 1
MaxTail == 4

SeqsUpTo(S, n) == UNION {[1..k -> S] : k \in 0..n}

LocAlphabet == {"{", "}", "x"}

LocMiddles ==
    { <<>>,
      StrPlayerResponseOpen,
      StrVarPlayerResponseOpen,
      StrInitialDataOpen,
      StrPlayerResponseAssign,           \* anchor truncated before its brace
      SubSeq(StrPlayerResponseOpen, 1, 10) }

LocInputs ==
    { h \o m \o t : h \in SeqsUpTo(LocAlphabet, MaxHead),
                    m \in LocMiddles,
                    t \in SeqsUpTo(LocAlphabet, MaxTail) }

InitLocator ==
    /\ html \in LocInputs
    /\ loc_fn \in {"core", "cli"}
    /\ loc_out = NotRun
    /\ CipherIdle
    /\ CatalogIdle
    /\ ExtIdle

ExtractJsonFromHtml ==
    /\ loc_fn = "core"
    /\ ~loc_out.run
    /\ loc_out' = extractJsonFromHtml(html)
    /\ UNCHANGED <<html, loc_fn, cipVars, catVars, extVars>>

FetchVideoInfoLocate ==
    /\ loc_fn = "cli"
    /\ ~loc_out.run
    /\ loc_out' = fetch_video_info_locate(html)
    /\ UNCHANGED <<html, loc_fn, cipVars, catVars, extVars>>

NextLocator == ExtractJsonFromHtml \/ FetchVideoInfoLocate

SpecLocator == InitLocator /\ [][NextLocator]_vars

----------------------------------------------------------------------------
(* Claims about the locator (checked under SpecLocator) *)

\* an anchor the running locator recognises occurs in s
HasAnchor(fn, s) ==
    \/ Find(s, StrPlayerResponseOpen, 0) # NPOS
    \/ (fn = "cli" /\ Find(s, StrInitialDataOpen, 0) # NPOS)

\* position of the anchor that the running locator settles on
AnchorPos(fn, s) ==
    IF fn = "cli" /\ Find(s, StrVarPlayerResponseOpen, 0) # NPOS
    THEN Find(s, StrVarPlayerResponseOpen, 0)
    ELSE IF Find(s, StrPlayerResponseOpen, 0) # NPOS
         THEN Find(s, StrPlayerResponseOpen, 0)
         ELSE Find(s, StrInitialDataOpen, 0)

\* the first '{' at or after the anchor
RefStart(fn, s) ==
    LET a == AnchorPos(fn, s)
    IN  CHOOSE k \in a..(Len(s) - 1) :
            /\ CharAt(s, k) = "{"
            /\ \A j \in a..(k - 1) : CharAt(s, j) # "{"

\* number of '{' minus number of '}' in s[a..e]
Balance(s, a, e) ==
    Cardinality({k \in a..e : CharAt(s, k) = "{"})
        - Cardinality({k \in a..e : CharAt(s, k) = "}"})

\* the first index at which the count taken from a is back at zero
RefEnd(s, a) ==
    LET closers == {e \in a..(Len(s) - 1) : Balance(s, a, e) = 0}
    IN  IF closers = {} THEN NPOS
        ELSE CHOOSE e \in closers : \A j \in closers : e <= j

IsSubstring(x, s) ==
    \E a \in 1..(Len(s) + 1) : \E b \in 0..Len(s) : x = SubSeq(s, a, b)

\* C1: on every input the locator ends with a substring of the input or with
\* failure, never reads the input at an index at or beyond its length, and
\* fails whenever no anchor occurs or the braces opened at the anchor are
\* never closed before the end of the input.
C1_LocatorTotalAndInBounds ==
    loc_out.run =>
        /\ loc_out.last_read < Len(html)
        /\ (loc_out.ok => loc_out.json # <<>> /\ IsSubstring(loc_out.json, html))
        /\ (~HasAnchor(loc_fn, html) => ~loc_out.ok)
        /\ (HasAnchor(loc_fn, html) /\ RefEnd(html, RefStart(loc_fn, html)) = NPOS
                => ~loc_out.ok)

\* an anchor is present, the braces never balance, the scan read up to the
\* last character and failure is reported
C1_Witness ==
    /\ loc_out.run
    /\ HasAnchor(loc_fn, html)
    /\ RefEnd(html, RefStart(loc_fn, html)) = NPOS
    /\ Len(html) > Len(StrVarPlayerResponseOpen)
    /\ loc_out.last_read = Len(html) - 1
    /\ ~loc_out.ok

\* C2: when an anchor is found and its braces balance, the output is exactly
\* the text from the first '{' at or after the anchor to the first '}' at
\* which the brace count is back at zero (so it does not depend on a leading
\* "var").
C2_ExactBalancedSubstring ==
    (loc_out.run /\ Find(html, StrPlayerResponseOpen, 0) # NPOS
        /\ RefEnd(html, RefStart(loc_fn, html)) # NPOS)
    => /\ loc_out.ok
       /\ loc_out.json = SubSeq(html, RefStart(loc_fn, html) + 1,
                                RefEnd(html, RefStart(loc_fn, html)) + 1)

\* the same statement for YouTubeFetcher::extractJsonFromHtml alone
C2_ExactBalancedSubstringCore ==
    loc_fn = "core" => C2_ExactBalancedSubstring

----------------------------------------------------------------------------
(* url_decode and SignatureDecipherer::parse_signature_cipher *)

HexDigits ==
    {"0","1","2","3","4","5","6","7","8","9",
     "a","b","c","d","e","f","A","B","C","D","E","F"}

HexVal(c) ==
    CASE c = "0" -> 0 [] c = "1" -> 1 [] c = "2" -> 2 [] c = "3" -> 3
      [] c = "4" -> 4 [] c = "5" -> 5 [] c = "6" -> 6 [] c = "7" -> 7
      [] c = "8" -> 8 [] c = "9" -> 9
      [] c \in {"a", "A"} -> 10 [] c \in {"b", "B"} -> 11
      [] c \in {"c", "C"} -> 12 [] c \in {"d", "D"} -> 13
      [] c \in {"e", "E"} -> 14 [] c \in {"f", "F"} -> 15

\* static_cast<char>(val): the character with that code (the codes the
\* inputs of the model can produce by name, any other as "\x<code>")
Chr(val) ==
    LET code == ((val % 256) + 256) % 256 IN
    CASE code = 32 -> " " [] code = 37 -> "%" [] code = 38 -> "&"
      [] code = 43 -> "+" [] code = 47 -> "/" [] code = 58 -> ":"
      [] code = 61 -> "=" [] code = 63 -> "?" [] code = 115 -> "s"
      [] OTHER -> "\\x" \o ToString(code)

\* std::stoi(hex_val_str, nullptr, 16) on a two-character string: leading
\* whitespace and one sign are skipped, then the longest run of hex digits
\* is converted; no digit at all is std::invalid_argument.
StoiHex(c1, c2) ==
    IF c1 \in HexDigits
    THEN [ok |-> TRUE,
          val |-> IF c2 \in HexDigits THEN 16 * HexVal(c1) + HexVal(c2) ELSE HexVal(c1)]
    ELSE IF c1 \in {" ", "+"} /\ c2 \in HexDigits THEN [ok |-> TRUE, val |-> HexVal(c2)]
    ELSE IF c1 = "-" /\ c2 \in HexDigits THEN [ok |-> TRUE, val |-> 0 - HexVal(c2)]
    ELSE [ok |-> FALSE, val |-> 0]

\* one iteration of the loop of url_decode at index i, where c is
\* encoded[i] and r the outcome of std::stoi on the two characters after
\* it: what is appended, and the index of the next iteration
UrlDecodeStep(encoded, i, c, r) ==
    IF c = "%"
    THEN IF i + 2 < Len(encoded)
         THEN IF r.ok
              THEN [add |-> <<Chr(r.val)>>, next |-> i + 3]
              ELSE [add |-> <<"%", CharAt(encoded, i + 1), CharAt(encoded, i + 2)>>,
                    next |-> i + 3]
         ELSE [add |-> <<c>>, next |-> i + 1]
    ELSE IF c = "+"
         THEN [add |-> <<" ">>, next |-> i + 1]
         ELSE [add |-> <<c>>, next |-> i + 1]

\* the loop of url_decode; st.next is the index i, st.add the text appended
\* by the iteration before, decoded the text before that
RECURSIVE UrlDecodeFrom(_, _, _)
UrlDecodeFrom(encoded, st, decoded) ==
    IF Len(decoded) < 0 \/ Len(st.add) < 0 \/ ~(st.next < Len(encoded))
    THEN decoded \o st.add
    ELSE UrlDecodeFrom(encoded,
             UrlDecodeStep(encoded, st.next, CharAt(encoded, st.next),
                           StoiHex(CharAt(encoded, st.next + 1), CharAt(encoded, st.next + 2))),
             decoded \o st.add)

url_decode(encoded) == UrlDecodeFrom(encoded, [add |-> <<>>, next |-> 0], <<>>)

StrUrl == <<"u","r","l">>
StrS == <<"s">>
StrSp == <<"s","p">>
StrSignature == <<"s","i","g","n","a","t","u","r","e">>

\* std::map<std::string, std::string>: params[k] = v
EmptyMap == [k \in {} |-> <<>>]
MapPut(m, k, v) == [x \in (DOMAIN m) \cup {k} |-> IF x = k THEN v ELSE m[x]]
MapCount(m, k) == k \in DOMAIN m

\* "if (!current_key.empty()) params[url_decode(current_key)] = url_decode(current_val);"
StoreParam(st) ==
    IF st.key # <<>>
    THEN MapPut(st.params, url_decode(st.key), url_decode(st.val))
    ELSE st.params

\* the branch for c == '=': the first '=' of a segment ends the key, a
\* later one belongs to the value
OnEqualsSplitEvery(st) ==
    IF st.parsing_key THEN [st EXCEPT !.parsing_key = FALSE] ELSE st
OnEquals(st) ==
    IF st.parsing_key
    THEN [st EXCEPT !.parsing_key = FALSE]
    ELSE [st EXCEPT !.val = Append(@, "=")]

\* the branch for c == '&'
OnAmpersand(st) ==
    [key |-> <<>>, val |-> <<>>, parsing_key |-> TRUE, params |-> StoreParam(st)]

\* any other character
OnOther(st, c) ==
    IF st.parsing_key
    THEN [st EXCEPT !.key = Append(@, c)]
    ELSE [st EXCEPT !.val = Append(@, c)]

\* one character of the scanning loop
OnChar(st, c) ==
    IF c = "=" THEN OnEquals(st)
    ELSE IF c = "&" THEN OnAmpersand(st)
    ELSE OnOther(st, c)

\* the scanning loop of parse_signature_cipher (st.parsing_key is read so
\* that the loop state is evaluated at every iteration)
RECURSIVE CipherScan(_, _, _)
CipherScan(cipher, i, st) ==
    IF st.parsing_key \notin BOOLEAN \/ ~(i < Len(cipher)) THEN st
    ELSE CipherScan(cipher, i + 1, OnChar(st, CharAt(cipher, i)))

\* "out_sp = params.count("sp") ? params["sp"] : "signature";
\*  if (out_sp.empty()) out_sp = "signature";"
SigParamNameNoEmptyCheck(params) ==
    IF MapCount(params, StrSp) THEN params[StrSp] ELSE StrSignature
SigParamName(params) ==
    LET out_sp == IF MapCount(params, StrSp) THEN params[StrSp] ELSE StrSignature
    IN  IF out_sp = <<>> THEN StrSignature ELSE out_sp

\* the outputs and the return value, from the parameter map
CipherOutputs(params) ==
    IF MapCount(params, StrUrl) /\ MapCount(params, StrS)
    THEN [run |-> TRUE, ok |-> TRUE, url |-> params[StrUrl], s |-> params[StrS],
          sp |-> SigParamName(params)]
    ELSE [run |-> TRUE, ok |-> FALSE, url |-> <<>>, s |-> <<>>, sp |-> <<>>]

ScanStart == [key |-> <<>>, val |-> <<>>, parsing_key |-> TRUE, params |-> EmptyMap]

parse_signature_cipher(cipher) ==
    CipherOutputs(StoreParam(CipherScan(cipher, 0, ScanStart)))

----------------------------------------------------------------------------
(* Inputs of the cipher parser: up to MaxSegs segments joined by '&' *)

MaxSegs == 3

CipherSegments ==
    { <<"s","=","C","B","A">>,
      <<"s","p","=","s","i","g">>,
      <<"u","r","l","=","h","%","3","A","%","2","F","v">>,
      <<"u","r","l","=","h","%","3","F","q","%","3","D","1">>,
      <<"s","p","=">>,
      <<"s">>,
      <<"=","x">>,
      <<"%","7","3","=","A","%","3","D","B","=","C">>,
      <<"s","=","a","+","b","%","2">>,
      <<"s","p","=","%","z","z">>,
      <<"x","=","%","4","z">>,
      <<>> }

RECURSIVE JoinAmp(_)
JoinAmp(segs) ==
    IF segs = <<>> THEN <<>>
    ELSE IF Len(segs) = 1 THEN segs[1]
    ELSE segs[1] \o <<"&">> \o JoinAmp(Tail(segs))

\* "s=CBA&sp=sig&url=https%3A%2F%2Fexample.com%2Fv"
CipherExample ==
    <<"s","=","C","B","A","&","s","p","=","s","i","g","&","u","r","l","=","h","t","t","p","s","%","3","A","%","2","F","%","2","F","e","x","a","m","p","l","e",".","c","o","m","%","2","F","v">>

CipherInputs ==
    { JoinAmp(segs) : segs \in SeqsUpTo(CipherSegments, MaxSegs) } \cup {CipherExample}

InitCipher ==
    /\ cipher_str \in CipherInputs
    /\ cip_out = NotRun
    /\ LocatorIdle
    /\ CatalogIdle
    /\ ExtIdle

ParseSignatureCipher ==
    /\ ~cip_out.run
    /\ cip_out' = parse_signature_cipher(cipher_str)
    /\ UNCHANGED <<cipher_str, locVars, catVars, extVars>>

NextCipher == ParseSignatureCipher

SpecCipher == InitCipher /\ [][NextCipher]_vars

----------------------------------------------------------------------------
(* Claims about parse_signature_cipher (checked under SpecCipher) *)

\* the positions just before each segment: 0 and every '&'
SegStarts(c) == {0} \cup {i \in 1..Len(c) : c[i] = "&"}

\* the position just after the segment that starts after a
SegEnd(c, a) ==
    LET stops == {i \in (a + 1)..Len(c) : c[i] = "&"} \cup {Len(c) + 1}
    IN  CHOOSE b \in stops : \A j \in stops : b <= j

SegText(c, a) == SubSeq(c, a + 1, SegEnd(c, a) - 1)

FirstEq(seg) ==
    LET eqs == {i \in 1..Len(seg) : seg[i] = "="}
    IN  IF eqs = {} THEN 0 ELSE CHOOSE i \in eqs : \A j \in eqs : i <= j

\* a segment split at its first '=' only
RawKey(seg) == IF FirstEq(seg) = 0 THEN seg ELSE SubSeq(seg, 1, FirstEq(seg) - 1)
RawVal(seg) == IF FirstEq(seg) = 0 THEN <<>> ELSE SubSeq(seg, FirstEq(seg) + 1, Len(seg))

SegsWithKey(c, k) == {a \in SegStarts(c) : url_decode(RawKey(SegText(c, a))) = k}

RefHas(c, k) == SegsWithKey(c, k) # {}

\* the decoded value of the last segment whose decoded key is k
RefVal(c, k) ==
    LET segs == SegsWithKey(c, k)
        last == CHOOSE a \in segs : \A j \in segs : j <= a
    IN  url_decode(RawVal(SegText(c, last)))

\* C3: the parser splits on every '&', splits each segment at its first '='
\* only, percent-decodes key and value after splitting, succeeds exactly when
\* both url and s are among the decoded keys, and leaves all three outputs
\* empty on failure.
C3_CipherParse ==
    cip_out.run =>
        /\ cip_out.ok <=> (RefHas(cipher_str, StrUrl) /\ RefHas(cipher_str, StrS))
        /\ cip_out.ok =>
              /\ cip_out.url = RefVal(cipher_str, StrUrl)
              /\ cip_out.s = RefVal(cipher_str, StrS)
        /\ ~cip_out.ok =>
              cip_out.url = <<>> /\ cip_out.s = <<>> /\ cip_out.sp = <<>>

\* a successful parse whose s value keeps its later '=' characters and whose
\* key was percent-encoded
C3_Witness ==
    /\ cip_out.run
    /\ cip_out.ok
    /\ cip_out.s = <<"A", "=", "B", "=", "C">>
    /\ ~(\E a \in SegStarts(cipher_str) : RawKey(SegText(cipher_str, a)) = StrS)

\* a failed parse of a cipher string that has a url but no s
C3_WitnessFailure ==
    /\ cip_out.run
    /\ ~cip_out.ok
    /\ RefHas(cipher_str, StrUrl)

\* C5: after a successful parse the signature-parameter name is non-empty:
\* the decoded sp value when sp is present and non-empty, "signature" when
\* sp is absent or empty.
C5_SigParamDefault ==
    (cip_out.run /\ cip_out.ok) =>
        /\ cip_out.sp # <<>>
        /\ cip_out.sp =
              IF RefHas(cipher_str, StrSp) /\ RefVal(cipher_str, StrSp) # <<>>
              THEN RefVal(cipher_str, StrSp)
              ELSE StrSignature

\* a successful parse of a cipher string whose sp is present but empty
C5_Witness ==
    /\ cip_out.run
    /\ cip_out.ok
    /\ RefHas(cipher_str, StrSp)
    /\ RefVal(cipher_str, StrSp) = <<>>
    /\ cip_out.sp = StrSignature

----------------------------------------------------------------------------
(* SignatureDecipherer: initialisation and decipher_signature.             *)
(* A player script is represented by what the extraction regexes yield on  *)
(* it; extracted JavaScript is represented by a token naming what the code *)
(* does when the Duktape context runs it.                                  *)

EmptyOperations ==
    [main_decipher_function_name |-> "", main_decipher_function_code |-> "",
     helper_object_name |-> "", helper_object_code |-> "", initialized |-> FALSE]

\* SignatureDecipherer::SignatureDecipherer()
NewDecipherer == [null |-> FALSE, ctx |-> TRUE, operations_ |-> EmptyOperations]

PlayerScript(url_found, content_empty, main_name, main_code, helper_name, helper_code) ==
    [player_url_found |-> url_found, content_empty |-> content_empty,
     main_name |-> main_name, main_code |-> main_code,
     helper_name |-> helper_name, helper_code |-> helper_code]

ScriptNoPlayerUrl == PlayerScript(FALSE, TRUE, "", "", "", "")
ScriptFetchFailed == PlayerScript(TRUE, TRUE, "", "", "", "")
ScriptUnrecognised == PlayerScript(TRUE, FALSE, "", "", "", "")
ScriptNoBody == PlayerScript(TRUE, FALSE, "rv", "", "", "")
ScriptReverse == PlayerScript(TRUE, FALSE, "rv", "fn_reverse", "", "")
ScriptHelper == PlayerScript(TRUE, FALSE, "hx", "fn_helper_reverse", "Bo", "var_Bo")
ScriptHelperMissing == PlayerScript(TRUE, FALSE, "hx", "fn_helper_reverse", "Bo", "")
ScriptNumber == PlayerScript(TRUE, FALSE, "nm", "fn_number", "", "")

PlayerScripts ==
    {ScriptNoPlayerUrl, ScriptFetchFailed, ScriptUnrecognised, ScriptNoBody,
     ScriptReverse, ScriptHelper, ScriptHelperMissing, ScriptNumber}

\* SignatureDecipherer::initialize_operations: the return value and the
\* instance afterwards
initialize_operationsHelperRequired(d, scr) ==
    IF ~d.ctx THEN [ret |-> FALSE, dec |-> d]
    ELSE IF scr.content_empty THEN [ret |-> FALSE, dec |-> d]
    ELSE IF scr.main_name = "" \/ scr.main_code = ""
    THEN [ret |-> FALSE, dec |-> d]
    ELSE IF scr.helper_name # "" /\ scr.helper_code = ""
    THEN [ret |-> FALSE, dec |-> d]
    ELSE [ret |-> TRUE,
          dec |-> [d EXCEPT !.operations_ =
                      [main_decipher_function_name |-> scr.main_name,
                       main_decipher_function_code |-> scr.main_code,
                       helper_object_name |-> scr.helper_name,
                       helper_object_code |-> scr.helper_code,
                       initialized |-> TRUE]]]
initialize_operations(d, scr) ==
    IF ~d.ctx THEN [ret |-> FALSE, dec |-> d]
    ELSE IF scr.content_empty THEN [ret |-> FALSE, dec |-> d]
    ELSE LET o1 == [d.operations_ EXCEPT !.main_decipher_function_name = scr.main_name] IN
         IF o1.main_decipher_function_name = ""
         THEN [ret |-> FALSE, dec |-> [d EXCEPT !.operations_ = o1]]
         ELSE LET o2 == [o1 EXCEPT !.main_decipher_function_code = scr.main_code] IN
              IF o2.main_decipher_function_code = ""
              THEN [ret |-> FALSE, dec |-> [d EXCEPT !.operations_ = o2]]
              ELSE LET o3 == [o2 EXCEPT !.helper_object_name = scr.helper_name]
                       o4 == IF o3.helper_object_name = "" THEN o3
                             ELSE [o3 EXCEPT !.helper_object_code = scr.helper_code]
                       o5 == [o4 EXCEPT !.initialized = (o4.main_decipher_function_code # "")]
                   IN  [ret |-> o5.initialized, dec |-> [d EXCEPT !.operations_ = o5]]

\* ensure_decipherer_initialized, run by one thread: the value of
\* global_decipherer afterwards
ensure_decipherer_initializedEveryCall(g, scr) ==
    IF scr.content_empty THEN g
    ELSE LET r == initialize_operations(NewDecipherer, scr) IN
         IF r.ret THEN r.dec ELSE Null
ensure_decipherer_initialized(g, scr) ==
    IF ~g.null THEN g
    ELSE IF scr.content_empty THEN g
    ELSE LET r == initialize_operations(NewDecipherer, scr) IN
         IF r.ret THEN r.dec ELSE Null

RECURSIVE Reverse(_)
Reverse(s) == IF s = <<>> THEN <<>> ELSE Append(Reverse(Tail(s)), Head(s))

\* duk_pcall of the main function on one string argument in a Duktape context that
\* holds the helper code (if any) and the main code
JsCall(main_code, helper_code, arg) ==
    CASE main_code = "fn_reverse" -> [status |-> "string", v |-> Reverse(arg)]
      [] main_code = "fn_helper_reverse" ->
            IF helper_code # "" THEN [status |-> "string", v |-> Reverse(arg)]
            ELSE [status |-> "error", v |-> <<>>]
      [] main_code = "fn_number" -> [status |-> "nonstring", v |-> <<>>]
      [] OTHER -> [status |-> "error", v |-> <<>>]

\* "if (duk_is_string(ctx_, -1)) deciphered_sig = duk_get_string(ctx_, -1);"
JsStringResult(r) == IF r.status = "string" THEN r.v ELSE <<>>

\* SignatureDecipherer::decipher_signature
decipher_signature(d, encrypted_sig) ==
    IF ~d.ctx THEN <<>>
    ELSE IF ~d.operations_.initialized \/ d.operations_.main_decipher_function_code = ""
    THEN <<>>
    ELSE JsStringResult(JsCall(d.operations_.main_decipher_function_code,
                               d.operations_.helper_object_code, encrypted_sig))

----------------------------------------------------------------------------
(* JSON values of a format entry *)

Absent == [t |-> "absent", v |-> <<>>, n |-> 0]
JStr(s) == [t |-> "string", v |-> s, n |-> 0]
JNum(k) == [t |-> "number", v |-> <<>>, n |-> k]
JOther == [t |-> "other", v |-> <<>>, n |-> 0]

Entry(itag, url, cipher, signatureCipher) ==
    [itag |-> itag, url |-> url, cipher |-> cipher, signatureCipher |-> signatureCipher,
     mimeType |-> Absent, bitrate |-> Absent, contentLength |-> Absent,
     approxDurationMs |-> Absent, height |-> Absent, fps |-> Absent]

DigitChar(d) ==
    CASE d = 0 -> "0" [] d = 1 -> "1" [] d = 2 -> "2" [] d = 3 -> "3" [] d = 4 -> "4"
      [] d = 5 -> "5" [] d = 6 -> "6" [] d = 7 -> "7" [] d = 8 -> "8" [] d = 9 -> "9"

\* std::to_string of a non-negative int
RECURSIVE IntToStr(_)
IntToStr(k) ==
    IF k < 10 THEN <<DigitChar(k)>> ELSE Append(IntToStr(k \div 10), DigitChar(k % 10))

StrDecipherFailed == <<"D","E","C","I","P","H","E","R","_","F","A","I","L","E","D">>
StrCipherParseFailed == <<"C","I","P","H","E","R","_","P","A","R","S","E","_","F","A","I","L","E","D">>
StrNoDecipherer == <<"N","O","_","D","E","C","I","P","H","E","R","E","R">>
StrNeedsDeciphering == <<"N","E","E","D","S","_","D","E","C","I","P","H","E","R","I","N","G">>
StrNeedsDecipheringOld == <<"N","E","E","D","S","_","D","E","C","I","P","H","E","R","I","N","G","_","O","L","D">>
StrApiUrlPrefix == <<"a","p","i","_","u","r","l","_">>
StrPlaceholder == <<"P","L","A","C","E","H","O","L","D","E","R">>

----------------------------------------------------------------------------
(* fetch_video_info: process_format_list *)

\* the acceptance test on the deciphered signature
DecipheredUsableNoPlaceholderTest(deciphered_s) == deciphered_s # <<>>
DecipheredUsable(deciphered_s) ==
    deciphered_s # <<>> /\ Find(deciphered_s, StrPlaceholder, 0) = NPOS

\* the url put together from the parsed cipher and the deciphered signature
BuildSignedUrlAlwaysQuestionMark(base_url, sig_param_name, deciphered_s) ==
    base_url \o <<"?">> \o sig_param_name \o <<"=">> \o deciphered_s
BuildSignedUrl(base_url, sig_param_name, deciphered_s) ==
    IF Find(base_url, <<"?">>, 0) = NPOS
    THEN base_url \o <<"?">> \o sig_param_name \o <<"=">> \o deciphered_s
    ELSE base_url \o <<"&">> \o sig_param_name \o <<"=">> \o deciphered_s

\* the url given to an entry whose cipher string does not parse
CipherParseFailureUrlEmpty(cipher_str_) == <<>>
CipherParseFailureUrl(cipher_str_) == StrCipherParseFailed

\* the cipher branch after decipher_signature
CliAfterDecipher(pr, deciphered_s) ==
    IF DecipheredUsable(deciphered_s)
    THEN BuildSignedUrl(pr.url, pr.sp, deciphered_s)
    ELSE StrDecipherFailed

\* the cipher branch after parse_signature_cipher
CliAfterParse(cipher_str_, dec, pr) ==
    IF pr.ok
    THEN CliAfterDecipher(pr, decipher_signature(dec, pr.s))
    ELSE CipherParseFailureUrl(cipher_str_)

\* the cipher branch, once cipher_str has been read
CliResolveCipher(cipher_str_, dec) ==
    IF ~dec.null
    THEN CliAfterParse(cipher_str_, dec, parse_signature_cipher(cipher_str_))
    ELSE StrNoDecipherer

\* "fmt_json.contains("signatureCipher") ? fmt_json["signatureCipher"]
\*                                       : fmt_json["cipher"]"
ChosenCipher(e) == IF e.signatureCipher.t # "absent" THEN e.signatureCipher ELSE e.cipher

\* "URL or Cipher": fmt.url of one entry; threw when get<std::string>() is
\* applied to a signatureCipher that is not a string (json::type_error,
\* which the catch of json::parse_error does not handle)
CliResolveUrl(e, dec) ==
    IF e.url.t = "string" THEN [threw |-> FALSE, url |-> e.url.v]
    ELSE IF e.signatureCipher.t = "string" \/ e.cipher.t = "string"
    THEN IF ChosenCipher(e).t = "string"
         THEN [threw |-> FALSE, url |-> CliResolveCipher(ChosenCipher(e).v, dec)]
         ELSE [threw |-> TRUE, url |-> <<>>]
    ELSE [threw |-> FALSE, url |-> <<>>]

\* an entry is skipped unless its itag is a number
CliHasItag(e) == e.itag.t = "number"

\* the entries of a list with their place: src is not a field of the
\* program's struct; it lets a record be traced to its entry
Placed(list, is_adaptive) ==
    [i \in 1..Len(list) |-> [e |-> list[i], src |-> [adaptive |-> is_adaptive, idx |-> i]]]

\* one entry of process_format_list: info.formats after it, given the
\* outcome r of "URL or Cipher" for an entry with an itag
CliPush(st, item, r) ==
    IF ~CliHasItag(item.e) THEN st
    ELSE IF r.threw THEN [threw |-> TRUE, formats |-> st.formats]
    ELSE [threw |-> FALSE,
          formats |-> Append(st.formats, [itag |-> IntToStr(item.e.itag.n), url |-> r.url,
                                          src |-> item.src])]

\* process_format_list over items[i..]; st.formats is info.formats so far
RECURSIVE CliProcessList(_, _, _, _)
CliProcessList(items, i, dec, st) ==
    IF st.threw \/ i > Len(items) THEN st
    ELSE CliProcessList(items, i + 1, dec,
             CliPush(st, items[i], CliResolveUrl(items[i].e, dec)))

\* info.formats after process_format_list on "formats" and then on
\* "adaptiveFormats", or threw
CliBuildFormats(formats, adaptive, dec) ==
    CliProcessList(Placed(formats, FALSE) \o Placed(adaptive, TRUE), 1, dec,
                   [threw |-> FALSE, formats |-> <<>>])

----------------------------------------------------------------------------
(* YouTubeFetcher::parseStreamFormats *)

Digits == {"0","1","2","3","4","5","6","7","8","9"}

\* value of the leading decimal digits of s[i..], continuing from acc
RECURSIVE LeadingDigits(_, _, _)
LeadingDigits(s, i, acc) ==
    IF i <= Len(s) /\ s[i] \in Digits
    THEN LeadingDigits(s, i + 1, 10 * acc + HexVal(s[i]))
    ELSE acc

\* safeGetInt(item, key): a number as it is, a string through std::stoi
\* (an exception leaves the default), anything else the default 0
safeGetInt(j) ==
    IF j.t = "number" THEN j.n
    ELSE IF j.t = "string" /\ Len(j.v) > 0 /\ j.v[1] \in Digits
         THEN LeadingDigits(j.v, 1, 0)
         ELSE 0

\* safeGetString(item, key)
safeGetString(j) == IF j.t = "string" THEN j.v ELSE <<>>

StrUrlEq == <<"u","r","l","=">>

\* std::regex_search(cipher_val, "url=([^&]+)"): the first capture, or
\* no match
RegexUrlParam(s) ==
    LET hits == {k \in 0..(Len(s) - 1) :
                    /\ MatchAt(s, StrUrlEq, k)
                    /\ k + 4 < Len(s)
                    /\ CharAt(s, k + 4) # "&"}
    IN  IF hits = {} THEN [matched |-> FALSE, capture |-> <<>>]
        ELSE LET k == CHOOSE x \in hits : \A y \in hits : x <= y
                 amps == {a \in (k + 4)..(Len(s) - 1) : CharAt(s, a) = "&"}
                 stop == IF amps = {} THEN Len(s)
                         ELSE CHOOSE a \in amps : \A b \in amps : a <= b
             IN  [matched |-> TRUE, capture |-> SubSeq(s, k + 5, stop)]

\* cpr::util::urlDecode (curl_easy_unescape): %XX with two hex digits is
\* replaced by the character, everything else is kept
RECURSIVE CurlUnescapeFrom(_, _, _)
CurlUnescapeFrom(s, i, out) ==
    IF Len(out) < 0 \/ ~(i < Len(s)) THEN out
    ELSE LET hex == CharAt(s, i) = "%" /\ CharAt(s, i + 1) \in HexDigits
                    /\ CharAt(s, i + 2) \in HexDigits
         IN  CurlUnescapeFrom(s, IF hex THEN i + 3 ELSE i + 1,
                 Append(out, IF hex
                             THEN Chr(16 * HexVal(CharAt(s, i + 1)) + HexVal(CharAt(s, i + 2)))
                             ELSE CharAt(s, i)))

urlDecode(s) == CurlUnescapeFrom(s, 0, <<>>)

\* stream.url of one entry, and whether the entry is skipped (continue)
CoreResolveUrl(item) ==
    LET url0 == safeGetString(item.url) IN
    IF url0 = <<>> /\ (item.cipher.t # "absent" \/ item.signatureCipher.t # "absent")
    THEN LET c0 == safeGetString(item.cipher)
             cipher_val == IF c0 = <<>> THEN safeGetString(item.signatureCipher) ELSE c0
             m == RegexUrlParam(cipher_val)
         IN  IF m.matched
             THEN [skip |-> urlDecode(m.capture) = <<>>, url |-> urlDecode(m.capture)]
             ELSE [skip |-> TRUE, url |-> <<>>]
    ELSE [skip |-> url0 = <<>>, url |-> url0]

\* std::optional
None == [has |-> FALSE, v |-> 0]
Some(v) == [has |-> TRUE, v |-> v]

\* safeGetLong(item, key)
safeGetLong(j) ==
    IF j.t = "number" THEN j.n
    ELSE IF j.t = "string" /\ Len(j.v) > 0 /\ j.v[1] \in Digits
         THEN LeadingDigits(j.v, 1, 0)
         ELSE 0

\* std::stoll on a string: the value of the leading digits, or
\* std::invalid_argument when there is none
Stoll(s) ==
    IF Len(s) > 0 /\ s[1] \in Digits
    THEN [threw |-> FALSE, v |-> LeadingDigits(s, 1, 0)]
    ELSE [threw |-> TRUE, v |-> 0]

\* stream.contentLength; threw when std::stoll on the contentLength string
\* throws (the approxDurationMs branch has its own try/catch)
CoreContentLengthNoBitrateTest(item) ==
    IF item.contentLength.t = "string"
    THEN [threw |-> Stoll(item.contentLength.v).threw,
          opt |-> Some(Stoll(item.contentLength.v).v)]
    ELSE IF item.contentLength.t = "number"
    THEN [threw |-> FALSE, opt |-> Some(item.contentLength.n)]
    ELSE IF item.approxDurationMs.t = "string"
    THEN [threw |-> FALSE,
          opt |-> IF Stoll(item.approxDurationMs.v).threw THEN None
                  ELSE Some((safeGetLong(item.bitrate) \div 8)
                            * (Stoll(item.approxDurationMs.v).v \div 1000))]
    ELSE [threw |-> FALSE, opt |-> None]
CoreContentLength(item) ==
    IF item.contentLength.t = "string"
    THEN [threw |-> Stoll(item.contentLength.v).threw,
          opt |-> Some(Stoll(item.contentLength.v).v)]
    ELSE IF item.contentLength.t = "number"
    THEN [threw |-> FALSE, opt |-> Some(item.contentLength.n)]
    ELSE IF item.approxDurationMs.t = "string" /\ safeGetLong(item.bitrate) > 0
    THEN [threw |-> FALSE,
          opt |-> IF Stoll(item.approxDurationMs.v).threw THEN None
                  ELSE Some((safeGetLong(item.bitrate) \div 8)
                            * (Stoll(item.approxDurationMs.v).v \div 1000))]
    ELSE [threw |-> FALSE, opt |-> None]

StrCodecsOpen == <<"c","o","d","e","c","s","=","\"">>
StrAudioSlash == <<"a","u","d","i","o","/">>
StrVideoSlash == <<"v","i","d","e","o","/">>

\* stream.codecs: the text between codecs=" and the next quote of mimeType
CoreCodecs(mimeType) ==
    IF Find(mimeType, StrCodecsOpen, 0) = NPOS THEN <<>>
    ELSE IF Find(mimeType, <<"\"">>, Find(mimeType, StrCodecsOpen, 0) + 8) = NPOS THEN <<>>
    ELSE Substr(mimeType, Find(mimeType, StrCodecsOpen, 0) + 8,
                Find(mimeType, <<"\"">>, Find(mimeType, StrCodecsOpen, 0) + 8)
                - (Find(mimeType, StrCodecsOpen, 0) + 8))

\* isAudioOnly and isVideoOnly; a MediaStream starts with both false
CoreFlags(is_adaptive_array, mimeType) ==
    IF is_adaptive_array
    THEN IF Find(mimeType, StrAudioSlash, 0) # NPOS
         THEN [isAudioOnly |-> TRUE, isVideoOnly |-> FALSE]
         ELSE IF Find(mimeType, StrVideoSlash, 0) # NPOS
              THEN [isAudioOnly |-> FALSE, isVideoOnly |-> TRUE]
              ELSE [isAudioOnly |-> FALSE, isVideoOnly |-> FALSE]
    ELSE [isAudioOnly |-> TRUE, isVideoOnly |-> TRUE]

\* "if (item.contains(key)) stream.<key> = safeGetInt(item, key);"
CoreOptInt(j) == IF j.t = "absent" THEN None ELSE Some(safeGetInt(j))

\* the MediaStream pushed for an entry that is not skipped (src as in
\* Placed)
CoreStream(item, i, is_adaptive_array, url, flags) ==
    [itag |-> safeGetInt(item.itag), url |-> url,
     mimeType |-> safeGetString(item.mimeType),
     codecs |-> CoreCodecs(safeGetString(item.mimeType)),
     bitrate |-> safeGetLong(item.bitrate),
     height |-> CoreOptInt(item.height), fps |-> CoreOptInt(item.fps),
     contentLength |-> CoreContentLength(item).opt,
     isDash |-> is_adaptive_array,
     isAudioOnly |-> flags.isAudioOnly, isVideoOnly |-> flags.isVideoOnly,
     src |-> [adaptive |-> is_adaptive_array, idx |-> i]]

\* one entry of process_stream_array, given the outcome r of its url
CoreStep(st, item, i, is_adaptive_array, r) ==
    IF r.skip THEN st
    ELSE IF CoreContentLength(item).threw THEN [threw |-> TRUE, streams |-> st.streams]
    ELSE [threw |-> FALSE,
          streams |-> Append(st.streams,
                             CoreStream(item, i, is_adaptive_array, r.url,
                                        CoreFlags(is_adaptive_array,
                                                  safeGetString(item.mimeType))))]

\* process_stream_array over arr[i..]; st.streams is the vector so far
RECURSIVE CoreProcessArray(_, _, _, _)
CoreProcessArray(arr, i, is_adaptive_array, st) ==
    IF st.threw \/ i > Len(arr) THEN st
    ELSE CoreProcessArray(arr, i + 1, is_adaptive_array,
             CoreStep(st, arr[i], i, is_adaptive_array, CoreResolveUrl(arr[i])))

NoStreams == [threw |-> FALSE, streams |-> <<>>]

\* details after "formats" (f) and, unless that threw, "adaptiveFormats"
CoreBoth(f, adaptive) ==
    IF f.threw THEN [threw |-> TRUE, formats |-> f.streams, adaptiveFormats |-> <<>>]
    ELSE [threw |-> CoreProcessArray(adaptive, 1, TRUE, NoStreams).threw,
          formats |-> f.streams,
          adaptiveFormats |-> CoreProcessArray(adaptive, 1, TRUE, NoStreams).streams]

parseStreamFormats(formats, adaptive) ==
    CoreBoth(CoreProcessArray(formats, 1, FALSE, NoStreams), adaptive)

\* a default-constructed MediaStream
DefaultMediaStream ==
    [itag |-> 0, url |-> <<>>, mimeType |-> <<>>, codecs |-> <<>>, bitrate |-> 0,
     height |-> None, fps |-> None, contentLength |-> None,
     isDash |-> TRUE, isAudioOnly |-> FALSE, isVideoOnly |-> FALSE,
     src |-> [adaptive |-> FALSE, idx |-> 0]]

----------------------------------------------------------------------------
(* download_video_format and YouTubeFetcher::downloadStream *)

\* how the transfer ends: status 2xx, 3xx, >= 400, or a transport error
NetOutcomes == {"status_2xx", "status_3xx", "status_4xx", "transport_error"}

FailureSentinels ==
    {StrNeedsDeciphering, StrNeedsDecipheringOld, StrNoDecipherer,
     StrDecipherFailed, StrCipherParseFailed}

\* the urls download_video_format refuses before doing anything
CliRefusesUrlEmptyOnly(url) == url = <<>>
CliRefusesUrl(url) ==
    \/ url = <<>>
    \/ url \in FailureSentinels
    \/ MatchAt(url, StrApiUrlPrefix, 0)

DlResult(url, ret, opened, requested, file_left) ==
    [run |-> TRUE, url |-> url, ret |-> ret, opened |-> opened,
     requested |-> requested, file_left |-> file_left]

download_video_format(url, open_ok, net) ==
    IF CliRefusesUrl(url) THEN DlResult(url, FALSE, FALSE, FALSE, FALSE)
    ELSE IF ~open_ok THEN DlResult(url, FALSE, FALSE, FALSE, FALSE)
    ELSE IF net = "status_2xx" THEN DlResult(url, TRUE, TRUE, TRUE, TRUE)
    ELSE DlResult(url, FALSE, TRUE, TRUE, FALSE)

\* the test that opens downloadStream
CoreRefusesUrlNever(url) == FALSE
CoreRefusesUrl(url) == url = <<>>

downloadStream(url, open_ok, net) ==
    IF CoreRefusesUrl(url) THEN DlResult(url, FALSE, FALSE, FALSE, FALSE)
    ELSE IF ~open_ok THEN DlResult(url, FALSE, FALSE, FALSE, FALSE)
    ELSE IF net \in {"transport_error", "status_4xx"}
         THEN DlResult(url, FALSE, TRUE, TRUE, FALSE)
         ELSE DlResult(url, TRUE, TRUE, TRUE, TRUE)

----------------------------------------------------------------------------
(* Inputs of the catalog builders *)

MaxFormats == 2

UrlDirect == <<"h",":","/","d">>
\* "sp=sig&url=h%3A%2Fv": no s
CipherNoS == <<"s","p","=","s","i","g","&","u","r","l","=","h","%","3","A","%","2","F","v">>
\* "s=CBA": no url
CipherNoUrl == <<"s","=","C","B","A">>
\* "s=CBA&url=h%3Fq%3D1": no sp, base url with a query
CipherQuery == <<"s","=","C","B","A","&","u","r","l","=","h","%","3","F","q","%","3","D","1">>
\* "s=REDLOHECALP&sp=sig&url=h%3A%2Fv"
CipherReversedPlaceholder ==
    <<"s","=","R","E","D","L","O","H","E","C","A","L","P","&","s","p","=","s","i","g","&","u","r","l","=","h","%","3","A","%","2","F","v">>

EntryDirect == Entry(JNum(18), JStr(UrlDirect), Absent, Absent)
EntryNoItag == Entry(Absent, JStr(UrlDirect), Absent, Absent)
EntryCiphered == Entry(JNum(22), Absent, Absent, JStr(CipherExample))
EntryCipherNoS == Entry(JNum(18), Absent, Absent, JStr(CipherNoS))
EntryBare == Entry(JNum(18), Absent, Absent, Absent)
EntryOldCipher == Entry(JNum(18), Absent, JStr(CipherQuery), Absent)
EntryStringItag == Entry(JStr(<<"1","8">>), JStr(UrlDirect), Absent, Absent)
EntryCipherNotString == Entry(JNum(18), Absent, JStr(CipherExample), JOther)
EntryCipherNoUrl == Entry(JNum(18), Absent, Absent, JStr(CipherNoUrl))
EntryCipherPlaceholder == Entry(JNum(18), Absent, Absent, JStr(CipherReversedPlaceholder))

Entries ==
    {EntryDirect, EntryNoItag, EntryCiphered, EntryCipherNoS, EntryBare,
     EntryOldCipher, EntryStringItag, EntryCipherNotString, EntryCipherNoUrl,
     EntryCipherPlaceholder}

AdaptiveLists == {<<>>, <<EntryDirect>>, <<EntryCipherNoS>>, <<EntryCiphered>>}

MimeAudio == <<"a","u","d","i","o","/","m","p","4">>
MimeVideo == <<"v","i","d","e","o","/","m","p","4">>
MimeText == <<"t","e","x","t","/","x">>
\* a video type whose parameters name an audio type
MimeVideoNamingAudio == <<"v","i","d","e","o","/","a","u","d","i","o","/","x">>
\* video/x; codecs="vp9"
MimeVideoCodecs ==
    <<"v","i","d","e","o","/","x",";"," ","c","o","d","e","c","s","=","\"","v","p","9","\"">>

WithMime(e, m) == [e EXCEPT !.mimeType = JStr(m)]
WithLength(e, cl) == [e EXCEPT !.contentLength = cl]
WithApprox(e, bitrate, ms) == [e EXCEPT !.bitrate = bitrate, !.approxDurationMs = ms]
WithVideo(e, height, fps) == [e EXCEPT !.height = height, !.fps = fps]

EntryAudio == WithLength(WithMime(EntryDirect, MimeAudio), JStr(<<"1","2","8">>))
EntryVideo == WithVideo(WithMime(EntryDirect, MimeVideoCodecs), JNum(720), JNum(30))
EntryText == WithMime(EntryDirect, MimeText)
EntryVideoNamingAudio == WithMime(EntryDirect, MimeVideoNamingAudio)
EntryBadLength == WithLength(WithMime(EntryDirect, MimeVideo), JStr(<<"a","b","c">>))
EntryApprox ==
    WithApprox(WithMime(EntryDirect, MimeVideo), JNum(800), JStr(<<"2","0","0","0">>))

EntryApproxNoBitrate ==
    WithApprox(WithMime(EntryDirect, MimeVideo), Absent, JStr(<<"2","0","0","0">>))
EntryLengthNumber == WithLength(WithMime(EntryDirect, MimeVideo), JNum(77))
EntryLengthAndApprox == WithLength(EntryApprox, JStr(<<"9">>))

\* the entries given to parseStreamFormats beside Entries
CoreEntries == {EntryAudio, EntryVideo, EntryBadLength}

CoreAdaptiveLists ==
    {<<EntryAudio>>, <<EntryVideo>>, <<EntryText>>, <<EntryVideoNamingAudio>>,
     <<EntryBadLength>>, <<EntryApprox>>, <<EntryVideo, EntryAudio>>,
     <<EntryApproxNoBitrate>>, <<EntryLengthNumber>>, <<EntryLengthAndApprox>>}

\* the itag given with -f
ItagArgs == {<<"1","8">>, <<"2","2">>, <<"1","3","7">>}

InitCatalog ==
    /\ prog \in {"cli", "core"}
    /\ formats_json \in SeqsUpTo(IF prog = "cli" THEN Entries ELSE Entries \cup CoreEntries,
                                 MaxFormats)
    /\ adaptive_json \in (IF prog = "cli" THEN AdaptiveLists
                          ELSE AdaptiveLists \cup CoreAdaptiveLists)
    /\ script \in (IF prog = "cli" THEN PlayerScripts ELSE {ScriptNoPlayerUrl})
    /\ global_decipherer = Null
    /\ cat_pc = "start"
    /\ info_formats = <<>>
    /\ details = EmptyDetails
    /\ dl_last = NotRun
    /\ fs_opened = {}
    /\ net_get = {}
    /\ LocatorIdle
    /\ CipherIdle
    /\ ExtIdle

\* the end of fetch_video_info: r is what process_format_list did
StoreFetched(dec, r) ==
    /\ global_decipherer' = dec
    /\ cat_pc' = IF r.threw THEN "threw" ELSE "fetched"
    /\ info_formats' = IF r.threw THEN <<>> ELSE r.formats

\* fetch_video_info once the decipherer is in the state dec
FetchWith(dec) == StoreFetched(dec, CliBuildFormats(formats_json, adaptive_json, dec))

\* fetch_video_info from the player script on: ensure_decipherer_initialized
\* (not called when the player script url was found and the fetch gave
\* nothing), then both format lists
FetchVideoInfo ==
    /\ prog = "cli"
    /\ cat_pc = "start"
    /\ FetchWith(IF script.player_url_found /\ script.content_empty
                 THEN global_decipherer
                 ELSE ensure_decipherer_initialized(global_decipherer, script))
    /\ UNCHANGED <<prog, formats_json, adaptive_json, script, details, dl_last,
                   fs_opened, net_get, locVars, cipVars, extVars>>

\* the end of parseVideoDetailsJson: r is what parseStreamFormats did. An
\* exception of std::stoll is not a nlohmann::json::exception and leaves
\* parseVideoDetailsJson and fetchVideoDetails.
StoreParsed(r) ==
    /\ details' = IF r.threw THEN EmptyDetails
                  ELSE [formats |-> r.formats, adaptiveFormats |-> r.adaptiveFormats]
    /\ cat_pc' = IF r.threw THEN "threw" ELSE "fetched"

\* parseVideoDetailsJson -> parseStreamFormats
ParseStreamFormats ==
    /\ prog = "core"
    /\ cat_pc = "start"
    /\ StoreParsed(parseStreamFormats(formats_json, adaptive_json))
    /\ UNCHANGED <<prog, formats_json, adaptive_json, script, global_decipherer,
                   info_formats, dl_last, fs_opened, net_get, locVars, cipVars, extVars>>

RecordDownload(r) ==
    /\ dl_last' = r
    /\ fs_opened' = IF r.opened THEN fs_opened \cup {r.url} ELSE fs_opened
    /\ net_get' = IF r.requested THEN net_get \cup {r.url} ELSE net_get

\* main of the native CLI with -f <itag>: the first format with that itag
\* is handed to download_video_format
DownloadVideoFormat ==
    /\ prog = "cli"
    /\ cat_pc = "fetched"
    /\ ~dl_last.run
    /\ \E sel \in ItagArgs, open_ok \in BOOLEAN, net \in NetOutcomes :
          LET hits == {j \in 1..Len(info_formats) : info_formats[j].itag = sel} IN
          /\ hits # {}
          /\ LET j == CHOOSE x \in hits : \A y \in hits : x <= y
             IN  RecordDownload(download_video_format(info_formats[j].url, open_ok, net))
    /\ UNCHANGED <<prog, formats_json, adaptive_json, script, global_decipherer, cat_pc,
                   info_formats, details, locVars, cipVars, extVars>>

\* downloadStream called with a catalogued stream or with a
\* default-constructed MediaStream
DownloadStream ==
    /\ prog = "core"
    /\ cat_pc = "fetched"
    /\ ~dl_last.run
    /\ \E open_ok \in BOOLEAN, net \in NetOutcomes :
       \E stream \in {details.formats[j] : j \in 1..Len(details.formats)}
                     \cup {details.adaptiveFormats[j] : j \in 1..Len(details.adaptiveFormats)}
                     \cup {DefaultMediaStream} :
          RecordDownload(downloadStream(stream.url, open_ok, net))
    /\ UNCHANGED <<prog, formats_json, adaptive_json, script, global_decipherer, cat_pc,
                   info_formats, details, locVars, cipVars, extVars>>

NextCatalog == FetchVideoInfo \/ ParseStreamFormats \/ DownloadVideoFormat \/ DownloadStream

SpecCatalog == InitCatalog /\ [][NextCatalog]_vars

----------------------------------------------------------------------------
(* Claims about the catalog builders and the download entry points        *)
(* (checked under SpecCatalog)                                             *)

Fetched == cat_pc = "fetched"

\* the records of the catalog, whichever builder made it
Records ==
    IF prog = "cli" THEN info_formats ELSE details.formats \o details.adaptiveFormats

SrcEntry(src) == IF src.adaptive THEN adaptive_json[src.idx] ELSE formats_json[src.idx]

\* every place of a source entry
Places ==
    {[adaptive |-> FALSE, idx |-> i] : i \in 1..Len(formats_json)}
    \cup {[adaptive |-> TRUE, idx |-> i] : i \in 1..Len(adaptive_json)}

RecordsOf(place) == {k \in 1..Len(Records) : Records[k].src = place}

\* no direct url, and a cipher string in signatureCipher or cipher
CipherOnly(e) ==
    e.url.t # "string" /\ (e.signatureCipher.t = "string" \/ e.cipher.t = "string")

RefCipherStr(e) ==
    IF e.signatureCipher.t = "string" THEN e.signatureCipher.v ELSE e.cipher.v

RefReverse(x) == [i \in 1..Len(x) |-> x[Len(x) + 1 - i]]

\* what the decipher function of the player script returns on x
RefDeciphered(x) ==
    IF script.main_code = "fn_reverse"
       \/ (script.main_code = "fn_helper_reverse" /\ script.helper_code # "")
    THEN RefReverse(x)
    ELSE <<>>

RefSigParam(c) ==
    IF ~RefHas(c, StrSp) THEN StrSignature
    ELSE LET sp == RefVal(c, StrSp) IN IF sp # <<>> THEN sp ELSE StrSignature

\* U + ('?' or '&') + P + '=' + f(X)
RefSigned(c) ==
    LET U == RefVal(c, StrUrl) IN
    U \o (IF \E i \in 1..Len(U) : U[i] = "?" THEN <<"&">> ELSE <<"?">>)
      \o RefSigParam(c) \o <<"=">> \o RefDeciphered(RefVal(c, StrS))

\* the entry is resolved through its cipher string, which has url and s,
\* with a decipherer at hand whose function returns a non-empty string
Decipherable(e) ==
    /\ CipherOnly(e)
    /\ ~global_decipherer.null
    /\ RefHas(RefCipherStr(e), StrUrl)
    /\ RefHas(RefCipherStr(e), StrS)
    /\ RefDeciphered(RefVal(RefCipherStr(e), StrS)) # <<>>

ExampleResolved ==
    <<"h","t","t","p","s",":","/","/","e","x","a","m","p","l","e",".","c","o","m","/","v","?","s","i","g","=","A","B","C">>

\* C4 as stated: whenever the decipher function returns a non-empty string
\* for s=X, the resolved url is U + '?' + P + '=' + f(X) if U has no '?' and
\* U + '&' + P + '=' + f(X) if it has.
C4_SignedUrlForAnyNonEmpty ==
    (Fetched /\ prog = "cli") =>
        \A k \in 1..Len(info_formats) :
            Decipherable(SrcEntry(info_formats[k].src)) =>
                info_formats[k].url = RefSigned(RefCipherStr(SrcEntry(info_formats[k].src)))

\* C4 (amended): whenever the decipher function returns for s=X a non-empty
\* string that does not contain PLACEHOLDER, the resolved url is
\* U + '?' + P + '=' + f(X) if U has no '?' and U + '&' + P + '=' + f(X) if
\* it has; the cipher s=CBA&sp=sig&url=https%3A%2F%2Fexample.com%2Fv with
\* string reversal resolves to https://example.com/v?sig=ABC.
C4_SignedUrl ==
    (Fetched /\ prog = "cli") =>
        \A k \in 1..Len(info_formats) :
            LET e == SrcEntry(info_formats[k].src) IN
            /\ (/\ Decipherable(e)
                /\ ~IsSubstring(StrPlaceholder, RefDeciphered(RefVal(RefCipherStr(e), StrS))))
               => info_formats[k].url = RefSigned(RefCipherStr(e))
            /\ (e = EntryCiphered /\ script = ScriptReverse)
               => info_formats[k].url = ExampleResolved

\* the example is resolved, and so is a cipher whose url has a query
C4_Witness ==
    /\ Fetched /\ prog = "cli" /\ script = ScriptReverse
    /\ \E k \in 1..Len(info_formats) :
          /\ SrcEntry(info_formats[k].src) = EntryCiphered
          /\ info_formats[k].url = ExampleResolved
    /\ \E k \in 1..Len(info_formats) :
          /\ SrcEntry(info_formats[k].src) = EntryOldCipher
          /\ info_formats[k].url = <<"h","?","q","=","1","&","s","i","g","n","a","t","u","r","e","=","A","B","C">>
\* the entry is resolved through a cipher string that has no s
LacksS(e) == CipherOnly(e) /\ ~RefHas(RefCipherStr(e), StrS)

RemoveIndex(seq, k) == [i \in 1..(Len(seq) - 1) |-> IF i < k THEN seq[i] ELSE seq[i + 1]]

WithoutSrc(recs) == [i \in 1..Len(recs) |-> [itag |-> recs[i].itag, url |-> recs[i].url]]

\* info.formats as fetch_video_info builds it when the entry at place is
\* taken out of its list
BuiltWithout(place) ==
    CliBuildFormats(IF place.adaptive THEN formats_json
                    ELSE RemoveIndex(formats_json, place.idx),
                    IF place.adaptive THEN RemoveIndex(adaptive_json, place.idx)
                    ELSE adaptive_json,
                    global_decipherer)

\* no call of a download function has opened the output file or asked the
\* network for url, and the last call, if it was for url, returned false
NeverTransferred(url) ==
    /\ url \notin fs_opened
    /\ url \notin net_get
    /\ (dl_last.run /\ dl_last.url = url)
       => (~dl_last.ret /\ ~dl_last.opened /\ ~dl_last.requested)

\* the other records are those built without the entry of record k
OthersUnaffected(k) ==
    /\ ~BuiltWithout(info_formats[k].src).threw
    /\ WithoutSrc(BuiltWithout(info_formats[k].src).formats)
       = WithoutSrc(RemoveIndex(info_formats, k))

\* C6 as stated: an entry whose cipher string lacks s keeps an empty url, is
\* rejected by the download path, and leaves every other entry as it would
\* have been without it.
C6_MissingSLeavesUrlEmpty ==
    (Fetched /\ prog = "cli") =>
        \A k \in 1..Len(info_formats) :
            LacksS(SrcEntry(info_formats[k].src)) =>
                /\ info_formats[k].url = <<>>
                /\ NeverTransferred(info_formats[k].url)
                /\ OthersUnaffected(k)

\* C6 (amended): an entry whose cipher string lacks s gets the url
\* CIPHER_PARSE_FAILED when a decipherer is available and NO_DECIPHERER when
\* none is (the parse is then not attempted), never a playable url;
\* download_video_format returns false for it before opening the file or
\* asking the network; every other entry resolves as it would have without
\* that entry.
C6_MissingSIsMarked ==
    (Fetched /\ prog = "cli") =>
        \A k \in 1..Len(info_formats) :
            LacksS(SrcEntry(info_formats[k].src)) =>
                /\ info_formats[k].url =
                       (IF global_decipherer.null THEN StrNoDecipherer
                        ELSE StrCipherParseFailed)
                /\ NeverTransferred(info_formats[k].url)
                /\ OthersUnaffected(k)

\* a cipher without s was parsed next to another entry, and the download of
\* its record was asked for
C6_Witness ==
    /\ Fetched /\ prog = "cli" /\ ~global_decipherer.null
    /\ Len(info_formats) >= 2
    /\ \E k \in 1..Len(info_formats) :
          /\ LacksS(SrcEntry(info_formats[k].src))
          /\ dl_last.run
          /\ dl_last.url = info_formats[k].url

\* C7: a record made from an entry that has only a cipher field has a
\* non-empty url only if the signature was deciphered and appended; it never
\* carries the bare base url or any url without the deciphered signature
\* (an empty url or a failure mark is what a failed resolution leaves).
C7_NeverUnsignedUrl ==
    Fetched =>
        \A k \in 1..Len(Records) :
            CipherOnly(SrcEntry(Records[k].src)) =>
                \/ Records[k].url = <<>>
                \/ Records[k].url \in FailureSentinels
                \/ /\ Decipherable(SrcEntry(Records[k].src))
                   /\ Records[k].url = RefSigned(RefCipherStr(SrcEntry(Records[k].src)))

\* C8: a call of downloadStream with an empty url, or of
\* download_video_format with an empty url or a failure mark, returns false
\* without the output file opened and without a network request; no file is
\* ever opened and no request ever made for such a url.
C8_NoTransferWithoutUrl ==
    /\ <<>> \notin fs_opened \cup net_get
    /\ (prog = "cli") => (FailureSentinels \cap (fs_opened \cup net_get) = {})
    /\ (dl_last.run /\ (dl_last.url = <<>>
                        \/ (prog = "cli" /\ dl_last.url \in FailureSentinels)))
       => (~dl_last.ret /\ ~dl_last.opened /\ ~dl_last.requested /\ ~dl_last.file_left)

\* download_video_format was called with a failure mark
C8_Witness ==
    /\ prog = "cli"
    /\ dl_last.run
    /\ dl_last.url \in FailureSentinels
    /\ ~dl_last.ret

HasItag(e) == e.itag.t # "absent"

\* every entry has an itag that is a number or none, and strings or nothing
\* in url, cipher and signatureCipher
WellFormed ==
    \A p \in Places :
        /\ SrcEntry(p).itag.t \in {"absent", "number"}
        /\ SrcEntry(p).url.t \in {"absent", "string"}
        /\ SrcEntry(p).cipher.t \in {"absent", "string"}
        /\ SrcEntry(p).signatureCipher.t \in {"absent", "string"}

\* C9: the catalog has exactly one record for every entry with an itag and
\* none for an entry without; the number of records is the number of
\* entries with an itag.
C9_OneRecordPerItagEntry ==
    (Fetched /\ WellFormed) =>
        /\ \A p \in Places :
              Cardinality(RecordsOf(p)) = (IF HasItag(SrcEntry(p)) THEN 1 ELSE 0)
        /\ Len(Records) = Cardinality({p \in Places : HasItag(SrcEntry(p))})

\* the entry has neither a direct url nor a cipher field, or its cipher
\* string cannot be resolved for want of url or s
Unresolvable(e) ==
    \/ (e.url.t = "absent" /\ e.cipher.t = "absent" /\ e.signatureCipher.t = "absent")
    \/ /\ CipherOnly(e)
       /\ (~RefHas(RefCipherStr(e), StrUrl) \/ ~RefHas(RefCipherStr(e), StrS))

\* C10: an entry with an itag and with no url and no cipher, or with a
\* cipher that cannot be resolved, has a record in the catalog, whose url is
\* empty (or a failure mark).
C10_UnresolvedIsRetained ==
    (Fetched /\ WellFormed) =>
        \A p \in Places :
            (HasItag(SrcEntry(p)) /\ Unresolvable(SrcEntry(p))) =>
                \E k \in RecordsOf(p) :
                    Records[k].url = <<>> \/ Records[k].url \in FailureSentinels

\* the mimeType starts with major/
MajorTypeIs(mimeType, major) ==
    /\ Len(mimeType) > Len(major)
    /\ SubSeq(mimeType, 1, Len(major)) = major
    /\ mimeType[Len(major) + 1] = "/"

\* C11: every MediaStream of the catalog has isDash true exactly if it came
\* from adaptiveFormats; one from adaptiveFormats has exactly one of
\* isAudioOnly and isVideoOnly true, isAudioOnly when the major type of the
\* mimeType is audio and isVideoOnly when it is video, whatever the mimeType
\* is; one from formats has both true.
C11_FlagsConsistent ==
    (Fetched /\ prog = "core") =>
        \A k \in 1..Len(Records) :
            LET r == Records[k]
                m == safeGetString(SrcEntry(r.src).mimeType)
            IN  /\ r.isDash = r.src.adaptive
                /\ r.src.adaptive =>
                      /\ r.isAudioOnly # r.isVideoOnly
                      /\ MajorTypeIs(m, <<"a","u","d","i","o">>) => r.isAudioOnly
                      /\ MajorTypeIs(m, <<"v","i","d","e","o">>) => r.isVideoOnly
                /\ ~r.src.adaptive => (r.isAudioOnly /\ r.isVideoOnly)

\* C12: whatever fields of the entries are missing or of an unexpected type
\* or content, parseVideoDetailsJson completes and returns a VideoDetails;
\* nothing is thrown out of it.
C12_SchemaProblemsAbsorbed ==
    (prog = "core" /\ cat_pc # "start") => cat_pc = "fetched"

----------------------------------------------------------------------------
(* One resolution request: fetchVideoDetails with the main of the library *)
(* CLI, and fetch_video_info with the main of the native CLI.  The page    *)
(* fetch, the JSON parser and the pbj=1 fallback request are inputs.       *)

StrRickId == "dQw4w9WgXcQ"

PageGood == StrPlayerResponseOpen \o <<"}">>
PageVar == StrVarPlayerResponseOpen \o <<"x","}">>
PageNoAnchor == <<"x","{","}">>
PageUnbalanced == StrPlayerResponseOpen \o <<"{","}">>

ResPages == {PageGood, PageVar, PageNoAnchor, PageUnbalanced, <<>>}

\* status_ok: the watch page came with status 200; json_valid: json::parse
\* accepts the located text; title: videoDetails.title of the player
\* response; api_key: the key given with -k; pbj: what the pbj=1 request
\* of fetchVideoDetails gives
ResInputs ==
    [prog : {"cli", "core"}, status_ok : BOOLEAN, page : ResPages,
     json_valid : BOOLEAN, title : {"", "T"}, api_key : {"", "k"},
     video_id : {StrRickId, "abc"}, pbj : {"none", "player_response"}]

\* the VideoInfo of fetch_video_info when it has scraped the page
ScrapedInfo(in) ==
    [run |-> TRUE, id |-> in.video_id, title |-> in.title,
     formats |-> CliBuildFormats(<<EntryDirect>>, <<>>, Null).formats,
     scraping_successful |-> TRUE]

\* the VideoInfo of the API fallback
ApiFallbackInfo(in) ==
    IF in.video_id = StrRickId
    THEN [run |-> TRUE, id |-> in.video_id,
          title |-> "Rick Astley - Never Gonna Give You Up (API Fallback)",
          formats |-> <<[itag |-> <<"2","2">>, url |-> StrApiUrlPrefix \o <<"2","2">>],
                        [itag |-> <<"1","8">>, url |-> StrApiUrlPrefix \o <<"1","8">>]>>,
          scraping_successful |-> FALSE]
    ELSE [run |-> TRUE, id |-> in.video_id, title |-> "Unknown Video (API Fallback)",
          formats |-> <<>>, scraping_successful |-> FALSE]

\* fetch_video_info(video_id, api_key)
fetch_video_info(in) ==
    IF in.status_ok /\ fetch_video_info_locate(in.page).ok /\ in.json_valid
    THEN ScrapedInfo(in)
    ELSE IF in.api_key # "" THEN ApiFallbackInfo(in)
    ELSE [run |-> TRUE, id |-> in.video_id, title |-> "", formats |-> <<>>,
          scraping_successful |-> FALSE]

\* "if (video_info.title.empty() && video_info.id != video_id)" of main
MainSeesFailure(info, video_id) == info.title = "" /\ info.id # video_id

\* std::optional<VideoDetails> of fetchVideoDetails
NoDetails == [run |-> TRUE, has |-> FALSE, title |-> ""]
SomeDetails(in) == [run |-> TRUE, has |-> TRUE, title |-> in.title]

\* fetchVideoDetails(videoUrl) for a url with a video id
fetchVideoDetails(in) ==
    IF ~in.status_ok THEN NoDetails
    ELSE IF ~extractJsonFromHtml(in.page).ok
    THEN IF in.pbj = "player_response" THEN SomeDetails(in) ELSE NoDetails
    ELSE IF in.json_valid THEN SomeDetails(in) ELSE NoDetails

InitResolve ==
    /\ res_in \in ResInputs
    /\ res_out = NotRun
    /\ res_main = "idle"
    /\ LocatorIdle
    /\ CipherIdle
    /\ CatalogIdle
    /\ DecipherIdle
    /\ CacheIdle
    /\ SelectionIdle
    /\ LateIdle

\* main of the native CLI calls fetch_video_info
CallFetchVideoInfo ==
    /\ res_in.prog = "cli"
    /\ ~res_out.run
    /\ res_out' = fetch_video_info(res_in)
    /\ UNCHANGED <<res_in, res_main, locVars, cipVars, catVars, decVars, cacheVars, selVars,
                   lateVars>>

\* main of the native CLI after fetch_video_info: exit, or
\* display_video_info and the rest
MainAfterFetchVideoInfo ==
    /\ res_in.prog = "cli"
    /\ res_out.run
    /\ res_main = "idle"
    /\ res_main' = IF MainSeesFailure(res_out, res_in.video_id) THEN "exit_error"
                   ELSE "listed"
    /\ UNCHANGED <<res_in, res_out, locVars, cipVars, catVars, decVars, cacheVars, selVars,
                   lateVars>>

\* main of the library CLI calls fetchVideoDetails
CallFetchVideoDetails ==
    /\ res_in.prog = "core"
    /\ ~res_out.run
    /\ res_out' = fetchVideoDetails(res_in)
    /\ UNCHANGED <<res_in, res_main, locVars, cipVars, catVars, decVars, cacheVars, selVars,
                   lateVars>>

\* main of the library CLI after fetchVideoDetails
MainAfterFetchVideoDetails ==
    /\ res_in.prog = "core"
    /\ res_out.run
    /\ res_main = "idle"
    /\ res_main' = IF ~res_out.has THEN "exit_error" ELSE "listed"
    /\ UNCHANGED <<res_in, res_out, locVars, cipVars, catVars, decVars, cacheVars, selVars,
                   lateVars>>

NextResolve ==
    \/ CallFetchVideoInfo
    \/ MainAfterFetchVideoInfo
    \/ CallFetchVideoDetails
    \/ MainAfterFetchVideoDetails

SpecResolve == InitResolve /\ [][NextResolve]_vars

\* the page came, and the player response is not in it or is not JSON (for
\* fetchVideoDetails: nor does the pbj=1 request give one)
BlobUnavailable ==
    /\ res_in.status_ok
    /\ IF res_in.prog = "cli"
       THEN ~fetch_video_info_locate(res_in.page).ok \/ ~res_in.json_valid
       ELSE IF extractJsonFromHtml(res_in.page).ok THEN ~res_in.json_valid
            ELSE res_in.pbj = "none"

\* C13: when the player response cannot be located or parsed, the caller
\* gets a failure: fetchVideoDetails returns no VideoDetails, the main of
\* the native CLI exits with an error, and nothing is listed.
C13_NoPartialResult ==
    BlobUnavailable =>
        /\ (res_in.prog = "core" /\ res_out.run) => ~res_out.has
        /\ res_main # "listed"

----------------------------------------------------------------------------
(* One SignatureDecipherer instance under any sequence of calls of its     *)
(* public interface.  The Duktape heap of the instance is represented by   *)
(* the set of global names that evaluated code has defined in it.          *)

MaxCalls == 4

\* scripts whose extracted code throws on a one-character signature, does
\* not evaluate (helper object, main function)
ScriptPicky == PlayerScript(TRUE, FALSE, "pk", "fn_picky", "", "")
ScriptBadHelper == PlayerScript(TRUE, FALSE, "hx", "fn_helper_reverse", "Bo", "var_bad")
ScriptBadMain == PlayerScript(TRUE, FALSE, "bm", "fn_bad", "", "")

InstScripts ==
    (PlayerScripts \ {ScriptNoPlayerUrl}) \cup {ScriptPicky, ScriptBadHelper, ScriptBadMain}

Signatures == {<<"a">>, <<"a","b">>}

\* SignatureDecipherer::SignatureDecipherer(): duk_create_heap_default
\* gives a heap or null
Constructed(heap_ok) ==
    [null |-> FALSE, ctx |-> heap_ok, operations_ |-> EmptyOperations, globals |-> {}]

\* duk_peval_string of the helper object code
EvalHelper(d) ==
    IF d.operations_.helper_object_code = "" THEN [ok |-> TRUE, globals |-> d.globals]
    ELSE IF d.operations_.helper_object_code = "var_bad"
    THEN [ok |-> FALSE, globals |-> d.globals]
    ELSE [ok |-> TRUE, globals |-> d.globals \cup {d.operations_.helper_object_name}]

\* the function name that a main function code defines when evaluated
CodeDefines(main_code) ==
    CASE main_code = "fn_reverse" -> "rv"
      [] main_code = "fn_helper_reverse" -> "hx"
      [] main_code = "fn_number" -> "nm"
      [] main_code = "fn_picky" -> "pk"
      [] OTHER -> ""

\* duk_peval_string of the main function code
EvalMain(main_code, globals) ==
    IF main_code = "fn_bad" THEN [ok |-> FALSE, globals |-> globals]
    ELSE [ok |-> TRUE, globals |-> globals \cup {CodeDefines(main_code)}]

\* duk_pcall of the global function fn_name on one string argument
JsCallIn(globals, fn_name, arg) ==
    CASE fn_name = "rv" -> [status |-> "string", v |-> Reverse(arg)]
      [] fn_name = "hx" ->
            IF "Bo" \in globals THEN [status |-> "string", v |-> Reverse(arg)]
            ELSE [status |-> "error", v |-> <<>>]
      [] fn_name = "nm" -> [status |-> "nonstring", v |-> <<>>]
      [] fn_name = "pk" ->
            IF Len(arg) < 2 THEN [status |-> "error", v |-> <<>>]
            ELSE [status |-> "string", v |-> Reverse(arg)]
      [] OTHER -> [status |-> "error", v |-> <<>>]

\* decipher_signature from the lookup of the main function on
DecipherAfterMainInvalidating(d, encrypted_sig, m) ==
    IF ~m.ok \/ d.operations_.main_decipher_function_name \notin m.globals
    THEN [ret |-> <<>>,
          dec |-> [d EXCEPT !.globals = m.globals, !.operations_ = EmptyOperations]]
    ELSE [ret |-> JsStringResult(JsCallIn(m.globals, d.operations_.main_decipher_function_name,
                                          encrypted_sig)),
          dec |-> [d EXCEPT !.globals = m.globals,
                            !.operations_.initialized =
                                (JsCallIn(m.globals, d.operations_.main_decipher_function_name,
                                          encrypted_sig).status = "string")]]
DecipherAfterMain(d, encrypted_sig, m) ==
    IF ~m.ok \/ d.operations_.main_decipher_function_name \notin m.globals
    THEN [ret |-> <<>>, dec |-> [d EXCEPT !.globals = m.globals]]
    ELSE [ret |-> JsStringResult(JsCallIn(m.globals, d.operations_.main_decipher_function_name,
                                          encrypted_sig)),
          dec |-> [d EXCEPT !.globals = m.globals]]

\* decipher_signature from the evaluation of the main function code on
DecipherAfterHelper(d, encrypted_sig, h) ==
    IF ~h.ok THEN [ret |-> <<>>, dec |-> d]
    ELSE DecipherAfterMain(d, encrypted_sig,
                           EvalMain(d.operations_.main_decipher_function_code, h.globals))

\* SignatureDecipherer::decipher_signature on an instance with its heap: the
\* return value and the instance afterwards
DecipherCall(d, encrypted_sig) ==
    IF ~d.ctx THEN [ret |-> <<>>, dec |-> d]
    ELSE IF ~d.operations_.initialized \/ d.operations_.main_decipher_function_code = ""
    THEN [ret |-> <<>>, dec |-> d]
    ELSE DecipherAfterHelper(d, encrypted_sig, EvalHelper(d))

\* an extraction step of initialize_operations failed: it got past the
\* checks of the heap and of the empty script and returned false
ExtractionFailed(d, scr, r) == d.ctx /\ ~scr.content_empty /\ ~r.ret

InitDecipherer ==
    /\ \E heap_ok \in BOOLEAN : inst = Constructed(heap_ok)
    /\ inst_ret = [op |-> "new", ok |-> TRUE, v |-> <<>>, after_failure |-> FALSE,
                   scr |-> ScriptNoPlayerUrl]
    /\ inst_failed = FALSE
    /\ inst_calls = 0
    /\ LocatorIdle
    /\ CipherIdle
    /\ CatalogIdle
    /\ ResolveIdle
    /\ CacheIdle
    /\ SelectionIdle
    /\ LateIdle

StoreInitialized(scr, r) ==
    /\ inst' = r.dec
    /\ inst_ret' = [op |-> "initialize_operations", ok |-> r.ret, v |-> <<>>,
                    after_failure |-> FALSE, scr |-> scr]
    /\ inst_failed' = (inst_failed \/ ExtractionFailed(inst, scr, r))

\* a call of initialize_operations on the instance
InitializeOperations ==
    /\ inst_calls < MaxCalls
    /\ \E scr \in InstScripts : StoreInitialized(scr, initialize_operations(inst, scr))
    /\ inst_calls' = inst_calls + 1
    /\ UNCHANGED <<locVars, cipVars, catVars, resVars, cacheVars, selVars,
                   lateVars>>

StoreDeciphered(r) ==
    /\ inst' = r.dec
    /\ inst_ret' = [op |-> "decipher_signature", ok |-> r.ret # <<>>, v |-> r.ret,
                    after_failure |-> inst_ret.op = "decipher_signature" /\ ~inst_ret.ok,
                    scr |-> ScriptNoPlayerUrl]

\* a call of decipher_signature on the instance
DecipherSignature ==
    /\ inst_calls < MaxCalls
    /\ \E sig \in Signatures : StoreDeciphered(DecipherCall(inst, sig))
    /\ inst_calls' = inst_calls + 1
    /\ UNCHANGED <<inst_failed, locVars, cipVars, catVars, resVars, cacheVars, selVars,
                   lateVars>>

\* the instance is destroyed and another one constructed
ConstructAnother ==
    /\ inst_calls < MaxCalls
    /\ \E heap_ok \in BOOLEAN : inst' = Constructed(heap_ok)
    /\ inst_ret' = [op |-> "new", ok |-> TRUE, v |-> <<>>, after_failure |-> FALSE,
                    scr |-> ScriptNoPlayerUrl]
    /\ inst_failed' = FALSE
    /\ inst_calls' = inst_calls + 1
    /\ UNCHANGED <<locVars, cipVars, catVars, resVars, cacheVars, selVars,
                   lateVars>>

NextDecipherer ==
    \/ InitializeOperations
    \/ DecipherSignature
    \/ ConstructAnother

SpecDecipherer == InitDecipherer /\ [][NextDecipherer]_vars

\* C14: once an extraction step has failed on an instance, no later call on
\* that instance returns a deciphered signature.
C14_UnusableIsTerminal ==
    (inst_failed /\ inst_ret.op = "decipher_signature") => inst_ret.v = <<>>

\* the step is a decipher_signature call that returns the failure value
FailedDecipherStep ==
    /\ inst_calls' = inst_calls + 1
    /\ inst_ret'.op = "decipher_signature"
    /\ inst_ret'.v = <<>>

\* C15: a decipher_signature call that fails leaves the DecipherOperations
\* record, with its initialized flag, as it was, and every signature that the
\* instance deciphered before the call it still deciphers after it.
C15_FailedDecipherKeepsEngine ==
    [][FailedDecipherStep =>
          /\ inst'.operations_ = inst.operations_
          /\ \A sig \in Signatures :
                DecipherCall(inst, sig).ret # <<>> =>
                    DecipherCall(inst', sig).ret = DecipherCall(inst, sig).ret]_vars

\* an initialised instance has failed on one signature and then deciphered
\* another
C15_Witness ==
    /\ inst_ret.op = "decipher_signature"
    /\ inst_ret.v = <<"b","a">>
    /\ inst_ret.after_failure

----------------------------------------------------------------------------
(* The process-wide decipherer over a sequence of resolution requests of   *)
(* one process, each with the player script its page refers to.            *)

MaxRequests == 5

\* the player-script part of fetch_video_info: the value of
\* global_decipherer afterwards
DeciphererAfterScript(g, scr) ==
    IF scr.player_url_found /\ scr.content_empty THEN g
    ELSE ensure_decipherer_initialized(g, scr)

InitCache ==
    /\ req_n = 0
    /\ populated = 0
    /\ LocatorIdle
    /\ CipherIdle
    /\ CatalogIdle
    /\ ResolveIdle
    /\ DecipherIdle
    /\ SelectionIdle
    /\ LateIdle

StoreCache(scr, g) ==
    /\ script' = scr
    /\ global_decipherer' = g
    /\ populated' = IF global_decipherer.null /\ ~g.null THEN populated + 1
                    ELSE IF ~global_decipherer.null /\ g # global_decipherer
                    THEN populated + 1
                    ELSE populated

\* one more fetch_video_info in the process, up to its use of the player script
ResolutionRequest ==
    /\ req_n < MaxRequests
    /\ \E scr \in PlayerScripts : StoreCache(scr, DeciphererAfterScript(global_decipherer, scr))
    /\ req_n' = req_n + 1
    /\ UNCHANGED <<prog, formats_json, adaptive_json, cat_pc, info_formats, details,
                   dl_last, fs_opened, net_get, locVars, cipVars, resVars, decVars,
                   selVars, lateVars>>

NextCache == ResolutionRequest

SpecCache == InitCache /\ [][NextCache]_vars

\* C16: once global_decipherer holds an instance, no later request changes
\* it, whatever player script the request brings; over any sequence of
\* requests the cache is set to an instance at most once.
C16_CachePopulatedOnce ==
    [][/\ ~global_decipherer.null => global_decipherer' = global_decipherer
       /\ populated' <= 1]_vars

\* a request has brought a script that initialises a decipherer other than
\* the cached one
C16_Witness ==
    /\ req_n >= 2
    /\ populated = 1
    /\ ~global_decipherer.null
    /\ script.main_code # ""
    /\ script.main_code # global_decipherer.operations_.main_decipher_function_code

----------------------------------------------------------------------------
(* StreamSelector: getAllStreams, filterStreams, selectBestStream, in the  *)
(* order main calls them.  An optional MediaStream is a sequence of length *)
(* 0 or 1, which is what main turns the result of selectBestStream into.   *)

MaxStreams == 3

SelStream(itag, codecs, bitrate, height, fps, isDash, isAudioOnly, isVideoOnly) ==
    [itag |-> itag, codecs |-> codecs, bitrate |-> bitrate, height |-> height,
     fps |-> fps, isDash |-> isDash, isAudioOnly |-> isAudioOnly,
     isVideoOnly |-> isVideoOnly]

StrAvc1 == <<"a","v","c","1">>
StrVp9 == <<"v","p","9">>
StrMp4a == <<"m","p","4","a">>

V360 == SelStream(134, StrAvc1, 600, Some(360), Some(30), TRUE, FALSE, TRUE)
V720 == SelStream(302, StrVp9, 2600, Some(720), Some(60), TRUE, FALSE, TRUE)
V1080 == SelStream(137, StrAvc1, 4300, Some(1080), Some(30), TRUE, FALSE, TRUE)
V1080Fast == SelStream(303, StrVp9, 4300, Some(1080), Some(60), TRUE, FALSE, TRUE)
A128 == SelStream(140, StrMp4a, 128, None, None, TRUE, TRUE, FALSE)
\* an entry of `formats` as parseStreamFormats flags it, and one with
\* neither flag
M360 == SelStream(18, StrAvc1 \o StrMp4a, 500, Some(360), Some(30), FALSE, TRUE, TRUE)
N360 == SelStream(18, StrAvc1 \o StrMp4a, 500, Some(360), Some(30), FALSE, FALSE, FALSE)

SelAdaptive == {V360, V720, V1080, V1080Fast, A128}
SelMuxed == {M360, N360}

StreamTypePreference == {"ANY", "VIDEO_ONLY", "AUDIO_ONLY", "MUXED"}
QualityPreference ==
    {"BEST_RESOLUTION", "WORST_RESOLUTION", "BEST_BITRATE", "WORST_BITRATE",
     "BEST_AUDIO_BITRATE", "WORST_AUDIO_BITRATE"}

\* FormatSelectionCriteria; an unset std::optional<std::string> is <<>>
Criteria(stream_type, target_height, target_fps, codec_video, codec_audio) ==
    [stream_type |-> stream_type, target_height |-> target_height,
     target_fps |-> target_fps, preferred_codec_video |-> codec_video,
     preferred_codec_audio |-> codec_audio]

DefaultCriteria == Criteria("ANY", None, None, <<>>, <<>>)

SelCriteria ==
    {DefaultCriteria,
     Criteria("VIDEO_ONLY", None, None, <<>>, <<>>),
     Criteria("AUDIO_ONLY", None, None, <<>>, <<>>),
     Criteria("MUXED", None, None, <<>>, <<>>),
     Criteria("ANY", Some(1080), None, <<>>, <<>>),
     Criteria("ANY", None, Some(30), <<>>, <<>>),
     Criteria("ANY", None, None, StrAvc1, <<>>),
     Criteria("ANY", None, None, <<>>, StrMp4a),
     Criteria("VIDEO_ONLY", None, Some(30), StrAvc1, <<>>)}

\* getAllStreams(details, adaptive_first)
getAllStreamsMuxedFirst(d, adaptive_first) == d.formats \o d.adaptiveFormats
getAllStreams(d, adaptive_first) ==
    IF adaptive_first THEN d.adaptiveFormats \o d.formats
    ELSE d.formats \o d.adaptiveFormats

\* the type preference of filterStreams
TypeMatches(s, stream_type) ==
    CASE stream_type = "ANY" -> TRUE
      [] stream_type = "VIDEO_ONLY" -> s.isVideoOnly
      [] stream_type = "AUDIO_ONLY" -> s.isAudioOnly
      [] stream_type = "MUXED" -> ~s.isAudioOnly /\ ~s.isVideoOnly

\* an optional target against an optional field of the stream
TargetMatches(field, target) == ~target.has \/ (field.has /\ field.v = target.v)

\* a preferred codec against `codecs`
CodecMatches(codecs, preferred) == preferred = <<>> \/ Find(codecs, preferred, 0) # NPOS

\* all active constraints of filterStreams
MatchesIgnoringFps(s, c) ==
    /\ TypeMatches(s, c.stream_type)
    /\ TargetMatches(s.height, c.target_height)
    /\ CodecMatches(s.codecs, c.preferred_codec_video)
    /\ CodecMatches(s.codecs, c.preferred_codec_audio)
Matches(s, c) ==
    /\ TypeMatches(s, c.stream_type)
    /\ TargetMatches(s.height, c.target_height)
    /\ TargetMatches(s.fps, c.target_fps)
    /\ CodecMatches(s.codecs, c.preferred_codec_video)
    /\ CodecMatches(s.codecs, c.preferred_codec_audio)

\* one stream of the loop of filterStreams
FilterStepDuplicating(out, s, c) ==
    IF Matches(s, c) THEN Append(Append(out, s), s) ELSE out
FilterStep(out, s, c) == IF Matches(s, c) THEN Append(out, s) ELSE out

RECURSIVE FilterFrom(_, _, _, _)
FilterFrom(streams, i, c, out) ==
    IF Len(out) < 0 \/ i > Len(streams) THEN out
    ELSE FilterFrom(streams, i + 1, c, FilterStep(out, streams[i], c))

\* filterStreams(streams, criteria)
filterStreams(streams, c) == FilterFrom(streams, 1, c, <<>>)

\* the keys of selectBestStream; an absent height or fps counts as 0
HeightOf(s) == IF s.height.has THEN s.height.v ELSE 0
FpsOf(s) == IF s.fps.has THEN s.fps.v ELSE 0

\* the entries a preference looks at
Eligible(preference, s) ==
    preference \notin {"BEST_AUDIO_BITRATE", "WORST_AUDIO_BITRATE"} \/ s.isAudioOnly

\* s replaces the current extremum
BetterFirstOfHeight(preference, s, best) ==
    CASE preference = "BEST_RESOLUTION" -> HeightOf(s) > HeightOf(best)
      [] preference = "WORST_RESOLUTION" -> HeightOf(s) < HeightOf(best)
      [] preference \in {"BEST_BITRATE", "BEST_AUDIO_BITRATE"} -> s.bitrate > best.bitrate
      [] preference \in {"WORST_BITRATE", "WORST_AUDIO_BITRATE"} -> s.bitrate < best.bitrate
Better(preference, s, best) ==
    CASE preference = "BEST_RESOLUTION" ->
            \/ HeightOf(s) > HeightOf(best)
            \/ (HeightOf(s) = HeightOf(best) /\ FpsOf(s) > FpsOf(best))
      [] preference = "WORST_RESOLUTION" ->
            \/ HeightOf(s) < HeightOf(best)
            \/ (HeightOf(s) = HeightOf(best) /\ FpsOf(s) > FpsOf(best))
      [] preference \in {"BEST_BITRATE", "BEST_AUDIO_BITRATE"} -> s.bitrate > best.bitrate
      [] preference \in {"WORST_BITRATE", "WORST_AUDIO_BITRATE"} -> s.bitrate < best.bitrate

\* one stream of the scan of selectBestStream
ScanStep(preference, best, s) ==
    IF ~Eligible(preference, s) THEN best
    ELSE IF best = <<>> THEN <<s>>
    ELSE IF Better(preference, s, best[1]) THEN <<s>>
    ELSE best

RECURSIVE ScanFrom(_, _, _, _)
ScanFrom(streams, i, preference, best) ==
    IF Len(best) < 0 \/ i > Len(streams) THEN best
    ELSE ScanFrom(streams, i + 1, preference, ScanStep(preference, best, streams[i]))

\* selectBestStream(streams, preference)
selectBestStreamSkippingFirst(streams, preference) == ScanFrom(streams, 2, preference, <<>>)
selectBestStream(streams, preference) == ScanFrom(streams, 1, preference, <<>>)

InitSelection ==
    /\ sel_in \in [run : {TRUE},
                   details : [formats : SeqsUpTo(SelMuxed, 1),
                              adaptiveFormats : SeqsUpTo(SelAdaptive, MaxStreams)],
                   criteria : SelCriteria,
                   prefer_adaptive_over_muxed : BOOLEAN]
    /\ sel_out = NotRun
    /\ LocatorIdle
    /\ CipherIdle
    /\ CatalogIdle
    /\ ResolveIdle
    /\ DecipherIdle
    /\ CacheIdle
    /\ LateIdle

SelResult(op, input, streams, passes, preference) ==
    [run |-> TRUE, op |-> op, input |-> input, streams |-> streams, passes |-> passes,
     preference |-> preference]

\* main: all_streams_combined = getAllStreams(details, prefer_adaptive_over_muxed)
GetAllStreams ==
    /\ ~sel_out.run
    /\ sel_out' = SelResult("getAllStreams", <<>>,
                            getAllStreams(sel_in.details, sel_in.prefer_adaptive_over_muxed),
                            0, "NONE")
    /\ UNCHANGED <<sel_in, locVars, cipVars, catVars, resVars, decVars, cacheVars,
                   lateVars>>

\* filterStreams on the list at hand, with the criteria of the request
FilterStreams ==
    /\ sel_out.run
    /\ sel_out.op \in {"getAllStreams", "filterStreams"}
    /\ sel_out.passes < 2
    /\ sel_out' = SelResult("filterStreams", sel_out.streams,
                            filterStreams(sel_out.streams, sel_in.criteria),
                            sel_out.passes + 1, "NONE")
    /\ UNCHANGED <<sel_in, locVars, cipVars, catVars, resVars, decVars, cacheVars,
                   lateVars>>

\* selectBestStream on the list at hand; main keeps the result as a list
SelectBestStream ==
    /\ sel_out.run
    /\ sel_out.op \in {"getAllStreams", "filterStreams"}
    /\ sel_out.passes < 2
    /\ \E preference \in QualityPreference :
          sel_out' = SelResult("selectBestStream", sel_out.streams,
                               selectBestStream(sel_out.streams, preference),
                               sel_out.passes, preference)
    /\ UNCHANGED <<sel_in, locVars, cipVars, catVars, resVars, decVars, cacheVars,
                   lateVars>>

\* selectBestStream again, on the list that holds its own result
ReselectBestStream ==
    /\ sel_out.run
    /\ sel_out.op = "selectBestStream"
    /\ sel_out' = SelResult("reselectBestStream", sel_out.streams,
                            selectBestStream(sel_out.streams, sel_out.preference),
                            sel_out.passes, sel_out.preference)
    /\ UNCHANGED <<sel_in, locVars, cipVars, catVars, resVars, decVars, cacheVars,
                   lateVars>>

NextSelection ==
    \/ GetAllStreams
    \/ FilterStreams
    \/ SelectBestStream
    \/ ReselectBestStream

SpecSelection == InitSelection /\ [][NextSelection]_vars

\* s satisfies every constraint that the criteria c set
Satisfies(s, c) ==
    /\ c.stream_type = "VIDEO_ONLY" => s.isVideoOnly
    /\ c.stream_type = "AUDIO_ONLY" => s.isAudioOnly
    /\ c.stream_type = "MUXED" => (~s.isAudioOnly /\ ~s.isVideoOnly)
    /\ c.target_height.has => s.height = c.target_height
    /\ c.target_fps.has => s.fps = c.target_fps
    /\ \A codec \in {c.preferred_codec_video, c.preferred_codec_audio} \ {<<>>} :
          IsSubstring(codec, s.codecs)

\* the k-th smallest element of a set of indices
KthOf(K, k) == CHOOSE i \in K : Cardinality({j \in K : j <= i}) = k

\* out is the subsequence of in at the indices K, in order
IsSubsequenceAt(out, in, K) ==
    /\ Len(out) = Cardinality(K)
    /\ \A k \in 1..Len(out) : out[k] = in[KthOf(K, k)]

\* C17: filterStreams returns the streams of its input that satisfy every
\* active constraint, each once and in input order; with the default
\* criteria it returns its input.
C17_FilterIsStableSubsequence ==
    (sel_out.run /\ sel_out.op = "filterStreams") =>
        /\ IsSubsequenceAt(sel_out.streams, sel_out.input,
                           {i \in 1..Len(sel_out.input) :
                                Satisfies(sel_out.input[i], sel_in.criteria)})
        /\ sel_in.criteria = DefaultCriteria => sel_out.streams = sel_out.input

\* a filter has kept two streams or more and dropped one between or around
\* them
C17_Witness ==
    /\ sel_out.run
    /\ sel_out.op = "filterStreams"
    /\ sel_out.passes = 1
    /\ Len(sel_out.streams) >= 2
    /\ Len(sel_out.streams) < Len(sel_out.input)
    /\ sel_out.streams[1] # sel_out.streams[2]

\* C18: filtering a filtered list again with the same criteria gives the
\* same list.
C18_FilterIdempotent ==
    (sel_out.run /\ sel_out.op = "filterStreams" /\ sel_out.passes = 2) =>
        sel_out.streams = sel_out.input

\* a second pass over a list that the first pass had shortened
C18_Witness ==
    /\ sel_out.run
    /\ sel_out.op = "filterStreams"
    /\ sel_out.passes = 2
    /\ sel_out.streams # <<>>
    /\ Len(sel_out.input)
           < Len(getAllStreams(sel_in.details, sel_in.prefer_adaptive_over_muxed))

MuxedCriteria == Criteria("MUXED", None, None, <<>>, <<>>)

\* C19: on the population built by parseStreamFormats, filterStreams with
\* the MUXED preference alone keeps exactly the entries of `formats`.
C19_MuxedFilterKeepsMuxed ==
    (prog = "core" /\ cat_pc = "fetched") =>
        filterStreams(getAllStreams(details, TRUE), MuxedCriteria) = details.formats

Elements(seq) == {seq[i] : i \in 1..Len(seq)}

\* C20: on a non-empty list, BEST_RESOLUTION returns a stream of the list of
\* the greatest height and, among those of that height, of the greatest fps;
\* WORST_RESOLUTION one of the least height and, among those, of the greatest
\* fps.
C20_ResolutionExtremum ==
    (/\ sel_out.run
     /\ sel_out.op = "selectBestStream"
     /\ sel_out.preference \in {"BEST_RESOLUTION", "WORST_RESOLUTION"}
     /\ sel_out.input # <<>>) =>
        /\ Len(sel_out.streams) = 1
        /\ sel_out.streams[1] \in Elements(sel_out.input)
        /\ \A s \in Elements(sel_out.input) :
              /\ sel_out.preference = "BEST_RESOLUTION" =>
                    HeightOf(s) <= HeightOf(sel_out.streams[1])
              /\ sel_out.preference = "WORST_RESOLUTION" =>
                    HeightOf(s) >= HeightOf(sel_out.streams[1])
              /\ HeightOf(s) = HeightOf(sel_out.streams[1]) =>
                    FpsOf(s) <= FpsOf(sel_out.streams[1])

\* the documented example: heights 360, 720, 1080 with fps 30, 60, 30,
\* filtered with target_fps 30, and BEST_RESOLUTION gives the 1080 stream
C20_Witness ==
    /\ sel_in.details.adaptiveFormats = <<V360, V720, V1080>>
    /\ sel_in.details.formats = <<>>
    /\ sel_in.criteria = Criteria("ANY", None, Some(30), <<>>, <<>>)
    /\ sel_out.run
    /\ sel_out.op = "selectBestStream"
    /\ sel_out.passes = 1
    /\ sel_out.input = <<V360, V1080>>
    /\ sel_out.preference = "BEST_RESOLUTION"
    /\ sel_out.streams = <<V1080>>

\* C21: when selectBestStream returns a stream, selectBestStream on the list
\* of that stream alone, with the same preference, returns it again.
C21_SelectIdempotent ==
    (sel_out.run /\ sel_out.op = "reselectBestStream" /\ sel_out.input # <<>>) =>
        sel_out.streams = sel_out.input

\* a re-selection from the result of a selection among several streams
C21_Witness ==
    /\ sel_out.run
    /\ sel_out.op = "reselectBestStream"
    /\ sel_out.streams = <<V1080Fast>>
    /\ sel_out.preference = "BEST_RESOLUTION"
    /\ Len(sel_in.details.adaptiveFormats) = 3

\* C22: getAllStreams returns adaptiveFormats followed by formats when
\* adaptive_first is true and formats followed by adaptiveFormats when it is
\* false: its length is the sum of both sizes and every stream of either
\* collection is at its index, shifted by the size of the collection put
\* first.
C22_GetAllStreamsConcatenates ==
    (sel_out.run /\ sel_out.op = "getAllStreams") =>
        LET a == sel_in.details.adaptiveFormats
            f == sel_in.details.formats
            shiftA == IF sel_in.prefer_adaptive_over_muxed THEN 0 ELSE Len(f)
            shiftF == IF sel_in.prefer_adaptive_over_muxed THEN Len(a) ELSE 0
        IN  /\ Len(sel_out.streams) = Len(a) + Len(f)
            /\ \A i \in 1..Len(a) : sel_out.streams[i + shiftA] = a[i]
            /\ \A i \in 1..Len(f) : sel_out.streams[i + shiftF] = f[i]

\* both collections are non-empty and the muxed one is asked first
C22_Witness ==
    /\ sel_out.run
    /\ sel_out.op = "getAllStreams"
    /\ ~sel_in.prefer_adaptive_over_muxed
    /\ Len(sel_in.details.formats) = 1
    /\ Len(sel_in.details.adaptiveFormats) >= 2
    /\ sel_out.streams[1] = sel_in.details.formats[1]

\* C23: initialize_operations returns true exactly when the Duktape heap
\* exists, the script is not empty, a main function name is found and its
\* code is extracted, whatever the script has for a helper object; when it
\* returns true the operations are marked initialized.
C23_InitializedIffMainExtracted ==
    inst_ret.op = "initialize_operations" =>
        /\ inst_ret.ok = (/\ inst.ctx
                          /\ ~inst_ret.scr.content_empty
                          /\ inst_ret.scr.main_name # ""
                          /\ inst_ret.scr.main_code # "")
        /\ inst_ret.ok => inst.operations_.initialized

\* initialize_operations has returned true on a script that refers to a
\* helper object whose definition was not extracted
C23_Witness ==
    /\ inst_ret.op = "initialize_operations"
    /\ inst_ret.ok
    /\ inst_ret.scr.helper_name # ""
    /\ inst_ret.scr.helper_code = ""

\* C26: after initialize_operations, the DecipherOperations record of the
\* instance is the one a newly constructed instance holds after that call
\* alone.
C26_ReinitialisationLeavesNoTrace ==
    inst_ret.op = "initialize_operations" =>
        inst.operations_
            = initialize_operations(Constructed(inst.ctx), inst_ret.scr).dec.operations_

----------------------------------------------------------------------------
(* ensure_decipherer_initialized called by several threads, one step per   *)
(* access to global_decipherer or decipherer_mutex, followed by the use of *)
(* global_decipherer in process_format_list.                               *)

NumThreads == 2

Threads == 1..NumThreads

\* what a call is given: a script that initialises, another one that does,
\* one in which no main function is found, and no content
ThreadScripts == {ScriptReverse, ScriptHelper, ScriptUnrecognised, ScriptNoPlayerUrl}

\* the state of the threads-specification outside the threads' own variables
catOther == <<prog, formats_json, adaptive_json, script, cat_pc, info_formats, details,
              dl_last, fs_opened, net_get>>
thrOther == <<catOther, locVars, cipVars, resVars, decVars, cacheVars, selVars, dnVars,
              fpVars>>

\* what a thread finds behind a non-null global_decipherer
Observation == [id |-> g_id, initialized |-> global_decipherer.operations_.initialized]

InitThreads ==
    /\ th_pc = [t \in Threads |-> "call"]
    /\ th_script \in [Threads -> ThreadScripts]
    /\ th_saw = [t \in Threads |-> {}]
    /\ mx = 0
    /\ g_id = 0
    /\ made = [constructed |-> 0, init_runs |-> 0, destroyed |-> {}]
    /\ LocatorIdle
    /\ CipherIdle
    /\ CatalogIdle
    /\ ResolveIdle
    /\ DecipherIdle
    /\ CacheIdle
    /\ SelectionIdle
    /\ TransferIdle
    /\ FilterStringIdle

\* "if (!global_decipherer)" outside the lock (line 27).  The read is not
\* ordered with the writes of a thread inside the lock: while the mutex is
\* held it may still give null.
FirstCheck(t) ==
    /\ th_pc[t] = "call"
    /\ \E null_read \in {global_decipherer.null} \cup (IF mx # 0 THEN {TRUE} ELSE {}) :
          /\ th_pc' = [th_pc EXCEPT ![t] = IF null_read THEN "lock" ELSE "return"]
          /\ th_saw' = [th_saw EXCEPT ![t] = IF null_read THEN @ ELSE @ \cup {Observation}]
    /\ UNCHANGED <<th_script, mx, g_id, made, global_decipherer, thrOther>>

\* std::lock_guard<std::mutex> lock(decipherer_mutex) (line 28)
Lock(t) ==
    /\ th_pc[t] = "lock"
    /\ mx = 0
    /\ mx' = t
    /\ th_pc' = [th_pc EXCEPT ![t] = "check2"]
    /\ UNCHANGED <<th_script, th_saw, g_id, made, global_decipherer, thrOther>>

\* where the checks of lines 29 and 30 lead
SecondCheckMissing(g, scr) == IF ~scr.content_empty THEN "construct" ELSE "unlock"
SecondCheck(g, scr) ==
    IF g.null THEN (IF ~scr.content_empty THEN "construct" ELSE "unlock")
    ELSE "unlock"

\* "if (!global_decipherer)" inside the lock, and the test of the content
DoubleCheck(t) ==
    /\ th_pc[t] = "check2"
    /\ th_pc' = [th_pc EXCEPT ![t] = SecondCheck(global_decipherer, th_script[t])]
    /\ UNCHANGED <<th_script, th_saw, mx, g_id, made, global_decipherer, thrOther>>

\* global_decipherer = std::make_unique<SignatureDecipherer>() (line 31)
Construct(t) ==
    /\ th_pc[t] = "construct"
    /\ global_decipherer' = NewDecipherer
    /\ g_id' = made.constructed + 1
    /\ made' = [made EXCEPT !.constructed = @ + 1,
                            !.destroyed = IF g_id = 0 THEN @ ELSE @ \cup {g_id}]
    /\ th_pc' = [th_pc EXCEPT ![t] = "init"]
    /\ UNCHANGED <<th_script, th_saw, mx, thrOther>>

StoreThreadInit(t, r) ==
    /\ global_decipherer' = r.dec
    /\ th_pc' = [th_pc EXCEPT ![t] = IF r.ret THEN "unlock" ELSE "reset"]

\* global_decipherer->initialize_operations(player_script_content) (line 32)
Initialize(t) ==
    /\ th_pc[t] = "init"
    /\ StoreThreadInit(t, initialize_operations(global_decipherer, th_script[t]))
    /\ made' = [made EXCEPT !.init_runs = @ + 1]
    /\ UNCHANGED <<th_script, th_saw, mx, g_id, thrOther>>

\* global_decipherer.reset() (line 35)
Reset(t) ==
    /\ th_pc[t] = "reset"
    /\ global_decipherer' = Null
    /\ g_id' = 0
    /\ made' = [made EXCEPT !.destroyed = @ \cup {g_id}]
    /\ th_pc' = [th_pc EXCEPT ![t] = "unlock"]
    /\ UNCHANGED <<th_script, th_saw, mx, thrOther>>

\* the end of the scope of the lock_guard
Unlock(t) ==
    /\ th_pc[t] = "unlock"
    /\ mx' = 0
    /\ th_pc' = [th_pc EXCEPT ![t] = "return"]
    /\ UNCHANGED <<th_script, th_saw, g_id, made, global_decipherer, thrOther>>

\* "if (global_decipherer)" of process_format_list (line 361)
UseDecipherer(t) ==
    /\ th_pc[t] = "return"
    /\ th_saw' = [th_saw EXCEPT ![t] = IF global_decipherer.null THEN @
                                       ELSE @ \cup {Observation}]
    /\ th_pc' = [th_pc EXCEPT ![t] = "done"]
    /\ UNCHANGED <<th_script, mx, g_id, made, global_decipherer, thrOther>>

NextThreads ==
    \E t \in Threads :
        \/ FirstCheck(t)
        \/ Lock(t)
        \/ DoubleCheck(t)
        \/ Construct(t)
        \/ Initialize(t)
        \/ Reset(t)
        \/ Unlock(t)
        \/ UseDecipherer(t)

SpecThreads == InitThreads /\ [][NextThreads]_vars

\* every thread calls with the same script, and that script initialises
SameValidScript ==
    /\ \A t \in Threads : th_script[t] = th_script[1]
    /\ initialize_operations(NewDecipherer, th_script[1]).ret

\* C24: when the threads make their first calls with the same valid script,
\* at most one instance is ever constructed and initialize_operations runs at
\* most once; when all have returned, exactly one instance was constructed
\* and initialised once, global_decipherer holds it initialised, and it is
\* the instance every thread found.
C24_ConcurrentFirstUseIdempotent ==
    SameValidScript =>
        /\ made.constructed <= 1
        /\ made.init_runs <= 1
        /\ made.destroyed = {}
        /\ (\A t \in Threads : th_pc[t] = "done") =>
              /\ made.constructed = 1
              /\ made.init_runs = 1
              /\ ~global_decipherer.null
              /\ global_decipherer.operations_.initialized
              /\ \A t \in Threads : {o.id : o \in th_saw[t]} = {1}

\* one thread is about to run initialize_operations inside the lock while
\* another, which found global_decipherer null, waits for the mutex
C24_Witness ==
    /\ SameValidScript
    /\ \E t \in Threads : \E u \in Threads :
          /\ th_pc[t] = "init"
          /\ th_pc[u] = "lock"

\* C25: whatever a thread finds behind a non-null global_decipherer, in the
\* first check or when it uses the decipherer, is an instance with
\* initialised operations that is never destroyed.
C25_OnlyInitializedVisible ==
    \A t \in Threads : \A o \in th_saw[t] :
        o.initialized /\ o.id \notin made.destroyed

----------------------------------------------------------------------------
(* YouTubeFetcher::downloadStream chunk by chunk: the write callback on    *)
(* every chunk the transfer delivers, the end of the transfer, and the      *)
(* handling of the response.                                                *)

MaxChunks == 3

ChunkSizes == {1, 2}

\* how session.Get() can end once the chunks have arrived: a status with no
\* transport error, or a transport error before or after the status line
DnEndings ==
    {[error |-> FALSE, status_code |-> s] : s \in {200, 302, 400, 503}}
        \cup {[error |-> TRUE, status_code |-> 0], [error |-> TRUE, status_code |-> 200]}

\* the response of a transfer that the write callback stopped
DnWriteError == [error |-> TRUE, status_code |-> 200]

\* fail_write_at: the chunk on which outputFile.write fails (0: none)
DnInputs ==
    {in \in [run : {TRUE}, open_ok : BOOLEAN, contentLength : {None, Some(3)},
             chunks : SeqsUpTo(ChunkSizes, MaxChunks), ending : DnEndings,
             fail_write_at : 0..MaxChunks, has_callback : BOOLEAN] :
        in.fail_write_at <= Len(in.chunks)}

\* stream.contentLength.value_or(0)
TotalBytesExpected(in) == IF in.contentLength.has THEN in.contentLength.v ELSE 0

\* the arguments of progressCallback in the write callback
ChunkProgressPerChunk(downloadedBytes, len, total) ==
    [kind |-> "chunk", bytes |-> len, total |-> total]
ChunkProgress(downloadedBytes, len, total) ==
    [kind |-> "chunk", bytes |-> downloadedBytes + len, total |-> total]

\* "if (response.error || response.status_code >= 400)"
TransferFailedOnErrorOnly(response) == response.error
TransferFailed(response) == response.error \/ response.status_code >= 400

\* the final progress update of a successful transfer
FinalProgress(has_callback, total, downloadedBytes) ==
    IF has_callback /\ total > 0 /\ downloadedBytes = total
    THEN <<[kind |-> "final", bytes |-> total, total |-> total]>>
    ELSE IF has_callback /\ total = 0 /\ downloadedBytes > 0
    THEN <<[kind |-> "final", bytes |-> downloadedBytes, total |-> downloadedBytes]>>
    ELSE <<>>

InitTransfer ==
    /\ dn_in \in DnInputs
    /\ dn_pc = [at |-> "idle", next |-> 1]
    /\ dn_bytes = 0
    /\ dn_file = [exists |-> FALSE, size |-> 0]
    /\ dn_calls = <<>>
    /\ dn_ret = NotRun
    /\ LocatorIdle
    /\ CipherIdle
    /\ CatalogIdle
    /\ ResolveIdle
    /\ DecipherIdle
    /\ CacheIdle
    /\ SelectionIdle
    /\ ThreadsIdle
    /\ FilterStringIdle

dnOther == <<locVars, cipVars, catVars, resVars, decVars, cacheVars, selVars, thrVars,
             fpVars>>

\* downloadStream up to session.Get(): the output file is opened
OpenOutputFile ==
    /\ dn_pc.at = "idle"
    /\ IF dn_in.open_ok
       THEN /\ dn_file' = [exists |-> TRUE, size |-> 0]
            /\ dn_pc' = [at |-> "transfer", next |-> 1]
            /\ dn_ret' = dn_ret
       ELSE /\ dn_file' = dn_file
            /\ dn_pc' = [at |-> "returned", next |-> 1]
            /\ dn_ret' = [run |-> TRUE, ret |-> FALSE]
    /\ UNCHANGED <<dn_in, dn_bytes, dn_calls, dnOther>>

\* writeCallback on the next chunk
WriteCallback ==
    /\ dn_pc.at = "transfer"
    /\ dn_pc.next <= Len(dn_in.chunks)
    /\ IF dn_in.fail_write_at = dn_pc.next
       THEN /\ dn_pc' = [at |-> "finished", next |-> dn_pc.next, response |-> DnWriteError]
            /\ UNCHANGED <<dn_bytes, dn_file, dn_calls>>
       ELSE /\ dn_file' = [dn_file EXCEPT !.size = @ + dn_in.chunks[dn_pc.next]]
            /\ dn_bytes' = dn_bytes + dn_in.chunks[dn_pc.next]
            /\ dn_calls' = IF dn_in.has_callback
                           THEN Append(dn_calls,
                                       ChunkProgress(dn_bytes, dn_in.chunks[dn_pc.next],
                                                     TotalBytesExpected(dn_in)))
                           ELSE dn_calls
            /\ dn_pc' = [at |-> "transfer", next |-> dn_pc.next + 1]
    /\ UNCHANGED <<dn_in, dn_ret, dnOther>>

\* session.Get() returns after the last chunk
TransferEnds ==
    /\ dn_pc.at = "transfer"
    /\ dn_pc.next > Len(dn_in.chunks)
    /\ dn_pc' = [at |-> "finished", next |-> dn_pc.next, response |-> dn_in.ending]
    /\ UNCHANGED <<dn_in, dn_bytes, dn_file, dn_calls, dn_ret, dnOther>>

\* downloadStream from outputFile.close() on
HandleResponse ==
    /\ dn_pc.at = "finished"
    /\ IF TransferFailed(dn_pc.response)
       THEN /\ dn_file' = [exists |-> FALSE, size |-> 0]
            /\ dn_calls' = dn_calls
            /\ dn_ret' = [run |-> TRUE, ret |-> FALSE]
       ELSE /\ dn_file' = dn_file
            /\ dn_calls' = dn_calls \o FinalProgress(dn_in.has_callback,
                                                     TotalBytesExpected(dn_in), dn_bytes)
            /\ dn_ret' = [run |-> TRUE, ret |-> TRUE]
    /\ dn_pc' = [dn_pc EXCEPT !.at = "returned"]
    /\ UNCHANGED <<dn_in, dn_bytes, dnOther>>

NextTransfer ==
    \/ OpenOutputFile
    \/ WriteCallback
    \/ TransferEnds
    \/ HandleResponse

SpecTransfer == InitTransfer /\ [][NextTransfer]_vars

\* the transfer of the request ends badly: a chunk cannot be written, or the
\* response has a transport error or a status of 400 or more
EndsBadly ==
    \/ dn_in.fail_write_at # 0
    \/ dn_in.ending.error
    \/ dn_in.ending.status_code >= 400

\* C27: when the transfer ends with a transport error, a status of 400 or
\* more, or a chunk that could not be written, downloadStream returns false
\* and the output file is gone; it returns true only for a transfer with no
\* error and a status below 400.
C27_FailedTransferLeavesNoFile ==
    (dn_pc.at = "returned" /\ dn_in.open_ok) =>
        /\ EndsBadly => (~dn_ret.ret /\ ~dn_file.exists)
        /\ dn_ret.ret => ~EndsBadly

\* a transfer that wrote chunks and then ended with status 400 has returned
C27_Witness ==
    /\ dn_pc.at = "returned"
    /\ dn_in.open_ok
    /\ dn_in.fail_write_at = 0
    /\ dn_in.ending = [error |-> FALSE, status_code |-> 400]
    /\ dn_bytes > 0
    /\ ~dn_ret.ret

RECURSIVE SumTo(_, _)
SumTo(chunks, k) == IF k = 0 THEN 0 ELSE SumTo(chunks, k - 1) + chunks[k]

\* the invocations made from the write callback
ChunkCalls == SelectSeq(dn_calls, LAMBDA c : c.kind = "chunk")

\* the chunks written so far
Written ==
    IF dn_pc.at = "idle" THEN 0
    ELSE IF dn_in.fail_write_at # 0 /\ dn_pc.next >= dn_in.fail_write_at
    THEN dn_in.fail_write_at - 1
    ELSE dn_pc.next - 1

\* C28: the progress callback has been invoked once for every chunk written,
\* in order, the k-th time with the total length of the first k chunks and
\* with the expected total of the stream; a chunk whose write failed has no
\* invocation.
C28_ProgressPerChunk ==
    dn_in.run =>
        /\ Len(ChunkCalls) = IF dn_in.has_callback THEN Written ELSE 0
        /\ \A k \in 1..Len(ChunkCalls) :
              /\ ChunkCalls[k].bytes = SumTo(dn_in.chunks, k)
              /\ ChunkCalls[k].total = TotalBytesExpected(dn_in)
              /\ dn_file.exists => ChunkCalls[k].bytes <= dn_file.size
        /\ \A k \in 2..Len(ChunkCalls) : ChunkCalls[k - 1].bytes <= ChunkCalls[k].bytes

\* two chunks were written and reported, and the write of the third failed
C28_Witness ==
    /\ dn_in.run
    /\ dn_in.has_callback
    /\ dn_in.fail_write_at = 3
    /\ dn_pc.at = "finished"
    /\ Len(dn_calls) = 2

\* s is a decimal numeral
IsNumeral(s) == s # <<>> /\ \A i \in 1..Len(s) : s[i] \in Digits

RECURSIVE NumeralValue(_)
NumeralValue(s) ==
    IF s = <<>> THEN 0
    ELSE 10 * NumeralValue(SubSeq(s, 1, Len(s) - 1)) + HexVal(s[Len(s)])

\* the entry states its contentLength, as a number or as a numeral
HasExplicitLength(e) ==
    \/ e.contentLength.t = "number"
    \/ (e.contentLength.t = "string" /\ IsNumeral(e.contentLength.v))

ExplicitLength(e) ==
    IF e.contentLength.t = "number" THEN e.contentLength.n
    ELSE NumeralValue(e.contentLength.v)

\* the entry has no contentLength but an approximate duration
HasDurationOnly(e) ==
    /\ e.contentLength.t = "absent"
    /\ e.approxDurationMs.t = "string"
    /\ IsNumeral(e.approxDurationMs.v)

EntryBitrate(e) == IF e.bitrate.t = "number" THEN e.bitrate.n ELSE 0

Estimate(e) == (EntryBitrate(e) \div 8) * (NumeralValue(e.approxDurationMs.v) \div 1000)

CoreRecords == details.formats \o details.adaptiveFormats

\* C29 as stated: the contentLength of a catalogued stream is the explicit
\* contentLength of its entry when there is one; otherwise, when the entry
\* has an approximate duration, (bitrate / 8) times the duration in seconds;
\* otherwise absent.
C29_ContentLengthAsStated ==
    (Fetched /\ prog = "core") =>
        \A k \in 1..Len(CoreRecords) :
            LET r == CoreRecords[k]
                e == SrcEntry(r.src)
            IN  /\ HasExplicitLength(e) => r.contentLength = Some(ExplicitLength(e))
                /\ HasDurationOnly(e) => r.contentLength = Some(Estimate(e))
                /\ (e.contentLength.t = "absent" /\ e.approxDurationMs.t = "absent")
                      => r.contentLength = None

\* C29 amended: the estimate is made only when the bitrate is positive; with
\* an approximate duration and no positive bitrate the contentLength is
\* absent.
C29_ContentLength ==
    (Fetched /\ prog = "core") =>
        \A k \in 1..Len(CoreRecords) :
            LET r == CoreRecords[k]
                e == SrcEntry(r.src)
            IN  /\ HasExplicitLength(e) => r.contentLength = Some(ExplicitLength(e))
                /\ (HasDurationOnly(e) /\ EntryBitrate(e) > 0)
                      => r.contentLength = Some(Estimate(e))
                /\ (HasDurationOnly(e) /\ EntryBitrate(e) <= 0) => r.contentLength = None
                /\ (e.contentLength.t = "absent" /\ e.approxDurationMs.t = "absent")
                      => r.contentLength = None

\* the catalog holds a stream of an entry with an approximate duration and
\* no bitrate, and one with an estimated contentLength
C29_Witness ==
    /\ Fetched
    /\ prog = "core"
    /\ \E k \in 1..Len(CoreRecords) :
          /\ HasDurationOnly(SrcEntry(CoreRecords[k].src))
          /\ EntryBitrate(SrcEntry(CoreRecords[k].src)) = 0
          /\ CoreRecords[k].contentLength = None

----------------------------------------------------------------------------
(* The two format-filter parsers: parseFormatFilterString of the CLI and    *)
(* parse_wasm_filter_string of the WASM API                                 *)

MaxItems == 2

KeyRes == <<"r","e","s">>
KeyBitrate == <<"b","i","t","r","a","t","e">>
KeyAudioBr == <<"a","u","d","i","o","_","b","r">>
KeyAbr == <<"a","b","r">>
KeyType == <<"t","y","p","e">>
KeyFps == <<"f","p","s">>
KeyVcodec == <<"v","c","o","d","e","c">>
KeyAcodec == <<"a","c","o","d","e","c">>
ValBest == <<"b","e","s","t">>
ValWorst == <<"w","o","r","s","t">>
ValVideo == <<"v","i","d","e","o">>
ValAudio == <<"a","u","d","i","o">>
ValMuxed == <<"m","u","x","e","d">>

\* struct FormatSelectionCriteria with its default member initialisers; an
\* optional member is a sequence of length 0 or 1
FormatSelectionCriteria ==
    [stream_type |-> "ANY", quality_preference |-> "NONE",
     target_height |-> <<>>, target_fps |-> <<>>,
     preferred_codec_video |-> <<>>, preferred_codec_audio |-> <<>>,
     prefer_adaptive_over_muxed |-> TRUE]

\* the characters std::stoi skips and the WASM parser trims (VT is the
\* vertical tab)
Whitespace == {" ", "\t", "\n", "\r", "\f", "VT"}

\* s.find_first_not_of(" \t\n\r\f\v")
FindFirstNotOf(s) ==
    LET hits == {k \in 0..(Len(s) - 1) : s[k + 1] \notin Whitespace}
    IN  IF hits = {} THEN NPOS ELSE CHOOSE k \in hits : \A j \in hits : k <= j

\* s.find_last_not_of(" \t\n\r\f\v")
FindLastNotOf(s) ==
    LET hits == {k \in 0..(Len(s) - 1) : s[k + 1] \notin Whitespace}
    IN  IF hits = {} THEN NPOS ELSE CHOOSE k \in hits : \A j \in hits : k >= j

\* s.erase(0, s.find_first_not_of(ws)); s.erase(s.find_last_not_of(ws) + 1)
Trim(s) ==
    IF FindFirstNotOf(s) = NPOS THEN <<>>
    ELSE SubSeq(s, FindFirstNotOf(s) + 1, FindLastNotOf(s) + 1)

\* std::stoi(value): leading whitespace and one sign are skipped, the digits
\* that follow are converted, std::invalid_argument when there is none
Stoi(value) ==
    LET b == IF FindFirstNotOf(value) = NPOS THEN Len(value) ELSE FindFirstNotOf(value)
        d == IF CharAt(value, b) \in {"+", "-"} THEN b + 1 ELSE b
    IN  IF CharAt(value, d) \in Digits
        THEN [threw |-> FALSE,
              v |-> IF CharAt(value, b) = "-" THEN 0 - LeadingDigits(value, d + 1, 0)
                    ELSE LeadingDigits(value, d + 1, 0)]
        ELSE [threw |-> TRUE, v |-> 0]

\* what one std::getline(stream, item, delim) at offset i extracts: ok is
\* false at the end of the text, next is the offset after the delimiter
Getline(s, i, delim) ==
    IF i >= Len(s) THEN [ok |-> FALSE, item |-> <<>>, next |-> i]
    ELSE IF Find(s, <<delim>>, i) = NPOS
    THEN [ok |-> TRUE, item |-> Substr(s, i, Len(s) - i), next |-> Len(s)]
    ELSE [ok |-> TRUE, item |-> Substr(s, i, Find(s, <<delim>>, i) - i),
          next |-> Find(s, <<delim>>, i) + 1]

\* main.cpp 79-160: one key:value item applied to criteria
CliApply(c, key, value) ==
    IF key = KeyRes
    THEN IF value \in {ValBest, ValWorst}
         THEN [c EXCEPT !.quality_preference =
                            IF value = ValBest THEN "BEST_RESOLUTION"
                            ELSE "WORST_RESOLUTION",
                        !.stream_type =
                            IF c.stream_type \in {"ANY", "AUDIO_ONLY"}
                            THEN "VIDEO_ONLY" ELSE c.stream_type]
         ELSE IF Stoi(value).threw THEN c
         ELSE [c EXCEPT !.target_height = <<Stoi(value).v>>]
    ELSE IF key = KeyBitrate
    THEN IF value = ValBest THEN [c EXCEPT !.quality_preference = "BEST_BITRATE"]
         ELSE IF value = ValWorst THEN [c EXCEPT !.quality_preference = "WORST_BITRATE"]
         ELSE c
    ELSE IF key \in {KeyAudioBr, KeyAbr}
    THEN IF value = ValBest
         THEN [c EXCEPT !.quality_preference = "BEST_AUDIO_BITRATE",
                        !.stream_type = "AUDIO_ONLY"]
         ELSE IF value = ValWorst
         THEN [c EXCEPT !.quality_preference = "WORST_AUDIO_BITRATE",
                        !.stream_type = "AUDIO_ONLY"]
         ELSE c
    ELSE IF key = KeyType
    THEN IF value = ValVideo THEN [c EXCEPT !.stream_type = "VIDEO_ONLY"]
         ELSE IF value = ValAudio THEN [c EXCEPT !.stream_type = "AUDIO_ONLY"]
         ELSE IF value = ValMuxed
         THEN [c EXCEPT !.stream_type = "MUXED", !.prefer_adaptive_over_muxed = FALSE]
         ELSE c
    ELSE IF key = KeyFps
    THEN IF Stoi(value).threw THEN c ELSE [c EXCEPT !.target_fps = <<Stoi(value).v>>]
    ELSE IF key = KeyVcodec
    THEN [c EXCEPT !.preferred_codec_video = <<value>>,
                   !.stream_type =
                       IF c.stream_type \in {"ANY", "AUDIO_ONLY"}
                       THEN "VIDEO_ONLY" ELSE c.stream_type]
    ELSE IF key = KeyAcodec
    THEN [c EXCEPT !.preferred_codec_audio = <<value>>,
                   !.stream_type =
                       IF /\ c.stream_type \in {"ANY", "VIDEO_ONLY"}
                          /\ c.preferred_codec_video = <<>>
                       THEN "AUDIO_ONLY" ELSE c.stream_type]
    ELSE c

\* main.cpp 70-78: an item without ':' is skipped, the others are split at
\* the first ':'
CliItem(c, item) ==
    IF Find(item, <<":">>, 0) = NPOS THEN c
    ELSE CliApply(c, Substr(item, 0, Find(item, <<":">>, 0)),
                  Substr(item, Find(item, <<":">>, 0) + 1, Len(item)))

\* the while loop of parseFormatFilterString from offset i of filterStr
RECURSIVE CliItemsFrom(_, _, _)
CliItemsFrom(filterStr, i, c) ==
    IF c.stream_type = "" \/ ~Getline(filterStr, i, ",").ok THEN c
    ELSE CliItemsFrom(filterStr, Getline(filterStr, i, ",").next,
                      CliItem(c, Getline(filterStr, i, ",").item))

\* parseFormatFilterString(filterStr, criteria): the criteria afterwards
parseFormatFilterString(filterStr, criteria) ==
    IF filterStr = <<>> THEN criteria ELSE CliItemsFrom(filterStr, 0, criteria)

\* yt_wasm_api.cpp 163-199: one trimmed key and value applied to criteria
WasmApply(c, key, value) ==
    IF key = KeyRes
    THEN IF value \in {ValBest, ValWorst}
         THEN [c EXCEPT !.quality_preference =
                            IF value = ValBest THEN "BEST_RESOLUTION"
                            ELSE "WORST_RESOLUTION",
                        !.stream_type =
                            IF c.stream_type = "ANY" THEN "VIDEO_ONLY"
                            ELSE c.stream_type]
         ELSE IF Stoi(value).threw THEN c
         ELSE [c EXCEPT !.target_height = <<Stoi(value).v>>]
    ELSE IF key = KeyBitrate
    THEN IF value = ValBest THEN [c EXCEPT !.quality_preference = "BEST_BITRATE"]
         ELSE IF value = ValWorst THEN [c EXCEPT !.quality_preference = "WORST_BITRATE"]
         ELSE c
    ELSE IF key \in {KeyAudioBr, KeyAbr}
    THEN IF value = ValBest
         THEN [c EXCEPT !.quality_preference = "BEST_AUDIO_BITRATE",
                        !.stream_type = "AUDIO_ONLY"]
         ELSE IF value = ValWorst
         THEN [c EXCEPT !.quality_preference = "WORST_AUDIO_BITRATE",
                        !.stream_type = "AUDIO_ONLY"]
         ELSE c
    ELSE IF key = KeyType
    THEN IF value = ValVideo THEN [c EXCEPT !.stream_type = "VIDEO_ONLY"]
         ELSE IF value = ValAudio THEN [c EXCEPT !.stream_type = "AUDIO_ONLY"]
         ELSE IF value = ValMuxed
         THEN [c EXCEPT !.stream_type = "MUXED", !.prefer_adaptive_over_muxed = FALSE]
         ELSE c
    ELSE IF key = KeyFps
    THEN IF Stoi(value).threw THEN c ELSE [c EXCEPT !.target_fps = <<Stoi(value).v>>]
    ELSE IF key = KeyVcodec
    THEN [c EXCEPT !.preferred_codec_video = <<value>>,
                   !.stream_type =
                       IF c.stream_type = "ANY" THEN "VIDEO_ONLY" ELSE c.stream_type]
    ELSE IF key = KeyAcodec
    THEN [c EXCEPT !.preferred_codec_audio = <<value>>,
                   !.stream_type =
                       IF c.stream_type = "ANY" THEN "AUDIO_ONLY" ELSE c.stream_type]
    ELSE c

\* yt_wasm_api.cpp 154-161: the key is read up to the first ':' and the
\* value up to the end of the line; a segment for which either read fails
\* is skipped, and both are trimmed
WasmSegment(c, segment) ==
    IF /\ Getline(segment, 0, ":").ok
       /\ Getline(segment, Getline(segment, 0, ":").next, "\n").ok
    THEN WasmApply(c, Trim(Getline(segment, 0, ":").item),
                   Trim(Getline(segment, Getline(segment, 0, ":").next, "\n").item))
    ELSE c

\* the while loop of parse_wasm_filter_string from offset i of filter_str
RECURSIVE WasmSegmentsFrom(_, _, _)
WasmSegmentsFrom(filter_str, i, c) ==
    IF c.stream_type = "" \/ ~Getline(filter_str, i, ",").ok THEN c
    ELSE WasmSegmentsFrom(filter_str, Getline(filter_str, i, ",").next,
                          WasmSegment(c, Getline(filter_str, i, ",").item))

\* parse_wasm_filter_string(filter_str)
parse_wasm_filter_string(filter_str) ==
    IF filter_str = <<>> THEN FormatSelectionCriteria
    ELSE WasmSegmentsFrom(filter_str, 0, FormatSelectionCriteria)

\* the filter items the strings are made of
FilterItems ==
    {<<"t","y","p","e",":","a","u","d","i","o">>,
     <<"t","y","p","e",":","v","i","d","e","o">>,
     <<"t","y","p","e",":","m","u","x","e","d">>,
     <<"r","e","s",":","b","e","s","t">>,
     <<"r","e","s",":","w","o","r","s","t">>,
     <<"r","e","s",":","7","2","0">>,
     <<"b","i","t","r","a","t","e",":","b","e","s","t">>,
     <<"a","b","r",":","w","o","r","s","t">>,
     <<"f","p","s",":","3","0">>,
     <<"v","c","o","d","e","c",":","a","v","c","1">>,
     <<"a","c","o","d","e","c",":","m","p","4","a">>,
     <<"v","c","o","d","e","c",":">>,
     <<" ","r","e","s"," ",":"," ","b","e","s","t">>,
     <<"b","o","g","u","s">>,
     <<"r","e","s",":","x">>}

RECURSIVE JoinComma(_)
JoinComma(items) ==
    IF Len(items) = 0 THEN <<>>
    ELSE IF Len(items) = 1 THEN items[1]
    ELSE items[1] \o <<",">> \o JoinComma(Tail(items))

\* the --format-filter arguments: up to MaxItems items separated by ','
FilterStrings ==
    {JoinComma(items) : items \in UNION {[1..n -> FilterItems] : n \in 0..MaxItems}}

InitFilterString ==
    /\ fp_in \in FilterStrings
    /\ fp_out = [cli |-> <<>>, wasm |-> <<>>]
    /\ LocatorIdle
    /\ CipherIdle
    /\ CatalogIdle
    /\ ResolveIdle
    /\ DecipherIdle
    /\ CacheIdle
    /\ SelectionIdle
    /\ ThreadsIdle
    /\ TransferIdle

fpOther == <<locVars, cipVars, catVars, resVars, decVars, cacheVars, selVars, thrVars,
             dnVars>>

\* main.cpp 343-347: the CLI parses the filter into default criteria
ParseCli ==
    /\ fp_out.cli = <<>>
    /\ fp_out' = [fp_out EXCEPT
                     !.cli = <<parseFormatFilterString(fp_in, FormatSelectionCriteria)>>]
    /\ UNCHANGED <<fp_in, fpOther>>

\* the WASM API parses the same filter
ParseWasm ==
    /\ fp_out.wasm = <<>>
    /\ fp_out' = [fp_out EXCEPT !.wasm = <<parse_wasm_filter_string(fp_in)>>]
    /\ UNCHANGED <<fp_in, fpOther>>

NextFilterString == ParseCli \/ ParseWasm

SpecFilterString == InitFilterString /\ [][NextFilterString]_vars

\* C30: for every filter string both parsers produce the same criteria, so
\* that a later res:best, res:worst, vcodec: or acodec: item leaves a stream
\* type set earlier in the string as it is.
C30_ParsersAgree ==
    (fp_out.cli # <<>> /\ fp_out.wasm # <<>>) => fp_out.cli = fp_out.wasm

====
